---- MODULE Spec2Model ----
(***************************************************************************)
(* The GradCafe crawl-and-extract pipeline of module_2.                    *)
(*                                                                         *)
(* Two scrapers are modelled side by side; the variable `variant` says     *)
(* which one a behaviour runs:                                             *)
(*   "GradCafeScraper"           src/module_2/scrape.py  (sequential       *)
(*                               detail resolver, backup every 50)         *)
(*   "OptimizedGradCafeScraper"  src/module_2/main.py    (batched resolver *)
(*                               on a thread pool, backup every 500)       *)
(*                                                                         *)
(* The remote site is the environment: every page fetch and every detail   *)
(* fetch draws its outcome nondeterministically.                           *)
(***************************************************************************)
EXTENDS Integers, Sequences, FiniteSets, TLC

(***************************************************************************)
(* Bounds of the model.                                                    *)
(***************************************************************************)
\* entry ids that the site can show are 1..MaxId
MaxId == 2
\* a listing page yields at most MaxRows rows with a /result/<id> link
MaxRows == 2
\* target_entries is drawn from 1..MaxTarget
MaxTarget == 3
\* max_pages is drawn from 1..MaxMaxPages
MaxMaxPages == 5
\* batch_size
BatchSize == 2
\* max_workers is drawn from 1..MaxWorkers
MaxWorkers == 2
\* start_page (scrape.py only) is drawn from 1..MaxStartPage
MaxStartPage == 3
\* a text under extraction is made of at most MaxParts words and numbers
MaxParts == 3
\* input_pizza is called at most MaxPizzas times on an Order
MaxPizzas == 2
\* a listing table has at most MaxListingRows rows, the header included
MaxListingRows == 2
\* a loaded file has at most MaxRaw raw entries, with keys in 1..MaxRaw
MaxRaw == 2
\* a document has at most MaxTables tables, of at most MaxTableRows rows,
\* with at most MaxKeywords of the header keywords in the first row
MaxTables == 2
MaxTableRows == 6
MaxKeywords == 2
\* the wall clock read by _save_backup (whole seconds) stays in 0..MaxClock
MaxClock == 1
\* Backup cadence.  The sources use 50 (scrape.py:546) and 500 (main.py:267);
\* the model keeps the guards `len % K == 0` verbatim and scales K so that a
\* run of a few records crosses several multiples of it.
BackupEverySeq == 2
BackupEveryOpt == 2

(***************************************************************************)
(* Program constants.                                                      *)
(***************************************************************************)
\* `consecutive_empty < 3` in both pagination loops
EmptyPageThreshold == 3
\* `if 260 <= score <= 340` in _extract_gre_scores
GreTotalMin == 260
GreTotalMax == 340
\* `if len(cells) < 3: return None` in _extract_row_metadata
MinCells == 3
\* `len(largest_table.find_all('tr')) > 5` in _find_results_table
LargestMinRows == 5
\* len(url_patterns) in GradCafeScraper._scrape_metadata_from_page
NumUrlPatternsSeq == 4
\* len(url_patterns) in OptimizedGradCafeScraper._scrape_single_table_page
NumUrlPatternsOpt == 3

SEQ == "GradCafeScraper"
OPT == "OptimizedGradCafeScraper"

VARIABLES
    variant,          \* which scraper class runs
    target_entries,   \* argument of scrape_data / scrape_data_optimized
    max_pages,        \* argument
    start_page,       \* argument (main.py has none: its loop starts at 1)
    batch_size,       \* argument (main.py only)
    max_workers,      \* self.max_workers (main.py only)
    pc,               \* position of the main thread
    all_metadata,     \* all_metadata of the pagination loop
    current_page,     \* current_page / page
    consecutive_empty_pages,
    entry_metadata,   \* what the pagination returned
    complete_entries, \* the accumulated output
    idx,              \* seq: index of the next metadata record; opt: batch_num
    tasks,            \* opt: the futures of the running batch
    batch_results,    \* opt: batch_results of _process_batch_parallel
    stats,            \* the self.* counters
    clock,            \* last value read from datetime.now() (seconds)
    writes,           \* every write the scraper attempted, in order
    lastPage,         \* the listing page requested last, with its outcome
    attempted,        \* indices of entry_metadata in the order their detail
                      \* fetch was issued
    result,           \* return value of the scrape call
    stats_lock,       \* main.py: self.stats_lock is held
    cleaner,          \* main.py: what GradCafeDataCleaner.clean_data did
    call,             \* the helper function called last, with its argument
    order,            \* module_4: the fields of an Order object
    input_pizza_calls \* module_4: how often input_pizza was called on it
                      \* and its return value (specification SpecFn only)

vars == <<variant, target_entries, max_pages, start_page, batch_size,
          max_workers, pc, all_metadata, current_page,
          consecutive_empty_pages, entry_metadata, complete_entries, idx,
          tasks, batch_results, stats, clock, writes, lastPage, attempted,
          result, stats_lock, cleaner, call, order, input_pizza_calls>>

\* What no step of a run changes: the arguments, and the record of helper
\* calls, which only the steps of SpecFn write.
config == <<variant, target_entries, max_pages, start_page, batch_size,
            max_workers, call, order, input_pizza_calls>>

\* The state of a run: everything but the record of helper calls.
run == <<variant, target_entries, max_pages, start_page, batch_size,
         max_workers, pc, all_metadata, current_page,
         consecutive_empty_pages, entry_metadata, complete_entries, idx,
         tasks, batch_results, stats, clock, writes, lastPage, attempted,
         result, stats_lock, cleaner, order, input_pizza_calls>>

\* The state of the scraper and the record of helper calls: what no call on
\* an Order changes.
scraper == <<variant, target_entries, max_pages, start_page, batch_size,
             max_workers, pc, all_metadata, current_page,
             consecutive_empty_pages, entry_metadata, complete_entries, idx,
             tasks, batch_results, stats, clock, writes, lastPage, attempted,
             result, stats_lock, cleaner>>

----------------------------------------------------------------------------
(***************************************************************************)
(* Helpers.                                                                *)
(***************************************************************************)
Min(a, b) == IF a < b THEN a ELSE b

Last(s) == s[Len(s)]

\* {**b, **a}: the first dict wins on a shared key.
DictMerge_FirstWins(a, b) ==
    [k \in (DOMAIN a) \cup (DOMAIN b) |-> IF k \in DOMAIN a THEN a[k] ELSE b[k]]

\* Python's {**a, **b}: keys of both, b wins on a shared key.
DictMerge(a, b) ==
    [k \in (DOMAIN a) \cup (DOMAIN b) |-> IF k \in DOMAIN b THEN b[k] ELSE a[k]]

EmptyDict == [k \in {} |-> ""]

\* Python truthiness of a dict.
DictTruthy(d) == DOMAIN d # {}

Ids == 1..MaxId

\* The row lists a page with at least one linked row can yield.
RowSeqs == UNION {[1..n -> Ids] : n \in 1..MaxRows}

\* The code never looks into an entry id, so the ids are interchangeable:
\* it is enough that the site shows a new id only when it has shown all the
\* smaller ones (the first row has id 1, the next new id is 2, ...).
RECURSIVE InOrderOfAppearance(_, _, _)
InOrderOfAppearance(ids, k, seen) ==
    IF k > Len(ids) THEN TRUE
    ELSE /\ ids[k] <= seen + 1
         /\ InOrderOfAppearance(ids, k + 1, IF ids[k] > seen THEN ids[k] ELSE seen)

\* urljoin(self.base_url, href) for the link /result/<id>
EntryUrl(id) == "/result/" \o ToString(id)

\* One RowMetadata dict per linked row.
RowMetadata(id) ==
    [k \in {"entry_id", "entry_url"} |->
        IF k = "entry_id" THEN id ELSE EntryUrl(id)]

MetadataOf(rows) == [i \in 1..Len(rows) |-> RowMetadata(rows[i])]

----------------------------------------------------------------------------
(***************************************************************************)
(* Listing pages.                                                          *)
(*                                                                         *)
(* One request of a listing URL ends in one of:                            *)
(*   "error"    the request raised (transport error after the retries) or  *)
(*              was answered with a status # 200; the two take the same    *)
(*              path in both scrapers                                      *)
(*   "notable"  status 200, but the document yields no row (no table, a    *)
(*              table without data rows, no row with a /result/<id> link)  *)
(*   "rows"     status 200 and at least one linked row                     *)
(***************************************************************************)
UrlOutcomes == {"error", "notable", "rows"}

NumUrlPatterns(v) == IF v = SEQ THEN NumUrlPatternsSeq ELSE NumUrlPatternsOpt

\* GradCafeScraper._scrape_metadata_from_page: every URL pattern is tried
\* until one yields rows (failed_page_requests, which only feeds the printed
\* summary, is left out).  attempts[k] is the outcome of the k-th pattern.
RECURSIVE ScrapeMetadataFromPage(_, _, _)
ScrapeMetadataFromPage(attempts, rows, k) ==
    IF k > Len(attempts)
    THEN <<>>
    ELSE IF attempts[k] = "rows"
         THEN MetadataOf(rows)
         ELSE ScrapeMetadataFromPage(attempts, rows, k + 1)

\* OptimizedGradCafeScraper._scrape_single_table_page: the first URL pattern
\* answering 200 decides, whatever its document yields; a request that
\* raised or was not 200 moves on to the next pattern.
RECURSIVE ScrapeSingleTablePage(_, _, _)
ScrapeSingleTablePage(attempts, rows, k) ==
    IF k > Len(attempts)
    THEN <<>>
    ELSE IF attempts[k] = "rows"
         THEN MetadataOf(rows)
         ELSE IF attempts[k] = "notable"
              THEN <<>>
              ELSE ScrapeSingleTablePage(attempts, rows, k + 1)

ScrapePage(v, attempts, rows) ==
    IF v = SEQ THEN ScrapeMetadataFromPage(attempts, rows, 1)
               ELSE ScrapeSingleTablePage(attempts, rows, 1)

\* An outcome after which no further URL pattern is requested.
Deciding(v, outcome) == outcome = "rows" \/ (v = OPT /\ outcome = "notable")

\* What the site can answer to the requests of one page: one outcome per
\* URL pattern requested, the patterns after a deciding outcome being never
\* requested.
RequestTraces(v) ==
    {attempts \in UNION {[1..n -> UrlOutcomes] : n \in 1..NumUrlPatterns(v)} :
        /\ \A k \in 1..(Len(attempts) - 1) : ~Deciding(v, attempts[k])
        /\ Len(attempts) < NumUrlPatterns(v) => Deciding(v, Last(attempts))}

\* What the requests made for one page amounted to: a document with rows, a
\* document without a table row, or nothing but errors.
PageKind(attempts) ==
    IF \E k \in DOMAIN attempts : attempts[k] = "rows" THEN "rows"
    ELSE IF \E k \in DOMAIN attempts : attempts[k] = "notable" THEN "notable"
    ELSE "failed"

\* The `while` condition with `<=` on the entry count: one page too many.
LoopCond_OffByOne ==
    /\ Len(all_metadata) <= target_entries
    /\ current_page <= max_pages
    /\ consecutive_empty_pages < EmptyPageThreshold

\* The `while` condition of _collect_entry_metadata (scrape.py:130) and of
\* _collect_metadata_sequential (main.py:157).
LoopCond ==
    /\ Len(all_metadata) < target_entries
    /\ current_page <= max_pages
    /\ consecutive_empty_pages < EmptyPageThreshold

\* The counter that is never reset by a page with rows.
NextEmptyCount_NoReset(page_metadata, count) ==
    IF page_metadata # <<>> THEN count ELSE count + 1

\* The counter that does not count an empty page.
NextEmptyCount_NoCount(page_metadata, count) ==
    IF page_metadata # <<>> THEN 0 ELSE count

\* consecutive_empty_pages after a page (scrape.py:138-145, main.py:162-168).
NextEmptyCount(page_metadata, count) ==
    IF page_metadata # <<>> THEN 0 ELSE count + 1

ZeroStats ==
    [total_pages_scraped     |-> 0,
     total_entries_processed |-> 0,
     entries_with_notes      |-> 0,
     failed_entry_requests   |-> 0,
     failed_requests         |-> 0]

NoPage == [page |-> 0, kind |-> "none", rows |-> 0]

\* The cleaner before it has run.
NotCleaned ==
    [ran |-> FALSE, input |-> "none", clean_data |-> <<>>, saved |-> "none"]

\* No helper called.
NoCall == [fn |-> "none", arg |-> <<>>, ret |-> <<>>]

\* Order.__init__: no pizzas, zero total cost, unpaid.
NewOrder == [pizzas |-> <<>>, total_cost |-> 0, paid |-> FALSE]

Init ==
    /\ variant \in {SEQ, OPT}
    /\ target_entries \in 1..MaxTarget
    /\ max_pages \in 1..MaxMaxPages
    /\ start_page \in IF variant = SEQ THEN 1..MaxStartPage ELSE {1}
    /\ batch_size = BatchSize
    /\ max_workers \in IF variant = OPT THEN 1..MaxWorkers ELSE {1}
    /\ pc = "paginate"
    /\ all_metadata = <<>>
    /\ current_page = start_page
    /\ consecutive_empty_pages = 0
    /\ entry_metadata = <<>>
    /\ complete_entries = <<>>
    /\ idx = 0
    /\ tasks = <<>>
    /\ batch_results = <<>>
    /\ stats = ZeroStats
    /\ clock = 0
    /\ writes = <<>>
    /\ lastPage = NoPage
    /\ attempted = <<>>
    /\ result = <<>>
    /\ stats_lock = FALSE
    /\ cleaner = NotCleaned
    /\ call = NoCall
    /\ order = NewOrder
    /\ input_pizza_calls = 0

\* A cursor that skips a page index.
NextPage_Skip(page) == page + 2

\* `current_page += 1` / `page += 1` at the end of the loop body.
NextPage(page) == page + 1

\* One iteration of the pagination loop: scrape the page, extend or count
\* the empty page, advance the page index.
FetchPage ==
    /\ pc = "paginate"
    /\ LoopCond
    /\ \E attempts \in RequestTraces(variant) :
       \E rows \in (IF Last(attempts) = "rows" THEN RowSeqs ELSE {<<>>}) :
         LET page_metadata == ScrapePage(variant, attempts, rows)
             shown == [i \in 1..(Len(all_metadata) + Len(rows)) |->
                         IF i <= Len(all_metadata)
                         THEN all_metadata[i]["entry_id"]
                         ELSE rows[i - Len(all_metadata)]]
         IN  /\ InOrderOfAppearance(shown, 1, 0)
             /\ all_metadata' = all_metadata \o page_metadata
             /\ consecutive_empty_pages' =
                  NextEmptyCount(page_metadata, consecutive_empty_pages)
             /\ lastPage' = [page |-> current_page,
                             kind |-> PageKind(attempts),
                             rows |-> Len(page_metadata)]
    /\ stats' = [stats EXCEPT !.total_pages_scraped = @ + 1]
    /\ current_page' = NextPage(current_page)
    /\ UNCHANGED <<config, stats_lock, cleaner, pc, entry_metadata, complete_entries, idx, tasks,
                   batch_results, clock, writes, attempted, result>>

\* A return without the slice.
Limited_NoLimit(metadata, target) == metadata

\* all_metadata[:target_entries]
Limited(metadata, target) == SubSeq(metadata, 1, Min(target, Len(metadata)))

\* The loop condition failed: truncate to target_entries and return to
\* scrape_data / scrape_data_optimized, which gives up on an empty list.
\* The locals of the pagination are gone with its frame (modelled as <<>>
\* and 0), and so is the record of its last page.
ExitPagination ==
    /\ pc = "paginate"
    /\ ~LoopCond
    /\ entry_metadata' = Limited(all_metadata, target_entries)
    /\ pc' = IF entry_metadata' = <<>> THEN "done"
             ELSE IF variant = SEQ THEN "detail" ELSE "batch"
    /\ idx' = IF variant = SEQ THEN 1 ELSE 0
    /\ all_metadata' = <<>>
    /\ current_page' = 0
    /\ consecutive_empty_pages' = 0
    /\ lastPage' = NoPage
    /\ UNCHANGED <<config, stats_lock, cleaner, complete_entries, tasks, batch_results, stats,
                   clock, writes, attempted, result>>

----------------------------------------------------------------------------
(***************************************************************************)
(* Detail documents.                                                       *)
(*                                                                         *)
(* One request of an entry URL ends in one of:                             *)
(*   "exc"     the request raised (transport error after the retries)      *)
(*   "non200"  a response with status # 200                                *)
(*   "empty"   status 200, but no field label is found: the parser         *)
(*             returns {}                                                  *)
(*   "plain"   status 200, fields but no notes                             *)
(*   "notes"   status 200, fields and non-blank notes                      *)
(***************************************************************************)
DetailOutcomes == {"exc", "non200", "empty", "plain", "notes"}

\* _parse_individual_entry on the document.
ParseIndividualEntry(outcome) ==
    CASE outcome = "plain" -> [k \in {"institution"} |-> "MIT"]
      [] outcome = "notes" -> [k \in {"institution", "notes"} |->
                                 IF k = "notes" THEN "funded" ELSE "MIT"]
      [] OTHER -> EmptyDict

\* What a fetch hands back: None, or the parsed dict; `raised` says that the
\* call ended in an exception instead of a return.
\* _fetch_single_entry_safe (main.py:305-338) and _fetch_single_entry_details
\* (scrape.py:557-595) both turn every exception and every non-200 status
\* into None.
FetchSingleEntry(outcome) ==
    IF outcome \in {"exc", "non200"}
    THEN [raised |-> FALSE, none |-> TRUE, data |-> EmptyDict]
    ELSE [raised |-> FALSE, none |-> FALSE, data |-> ParseIndividualEntry(outcome)]

NoResult == [raised |-> FALSE, none |-> TRUE, data |-> EmptyDict]

\* `if detailed_data:` / `if result:`
Truthy(r) == ~r.none /\ DictTruthy(r.data)

\* `result.get('notes', '').strip()` is non-empty
HasNotes(d) == "notes" \in DOMAIN d /\ d["notes"] # ""

\* An increment that forgets the notes counter.
Counted_NotesLost(s, data) ==
    [s EXCEPT !.total_entries_processed = @ + 1]

\* total_entries_processed += 1, and entries_with_notes += 1 when the
\* record has non-blank notes (main.py:294-296, scrape.py:531-535).
Counted(s, data) ==
    [s EXCEPT !.total_entries_processed = @ + 1,
              !.entries_with_notes = IF HasNotes(data) THEN @ + 1 ELSE @]

(***************************************************************************)
(* Files.  A file name is modelled by its variable parts: the base name,   *)
(* the record count and the timestamp it embeds (0 where the name has no   *)
(* such part).                                                             *)
(***************************************************************************)
\* scrape.py:719  gradcafe_backup_{len(data)}_entries_{now:%Y%m%d_%H%M%S}.json
\* main.py:398    gradcafe_progress_backup_{len(data)}_entries.json
BackupName(v, data, now) ==
    IF v = SEQ
    THEN [base |-> "gradcafe_backup", n |-> Len(data), ts |-> now]
    ELSE [base |-> "gradcafe_progress_backup", n |-> Len(data), ts |-> 0]

\* scrape.py:729, main.py:408
CompleteName == [base |-> "gradcafe_complete_data", n |-> 0, ts |-> 0]

\* "failed": open() or json.dump() raised.
WriteOutcomes == {"ok", "failed"}

\* A write without the try/except: the exception ends the run.
PcAfterWrite_Uncaught(outcome, resume) ==
    IF outcome = "ok" THEN resume ELSE "done"

\* The try/except around every write: whatever the outcome, control goes on
\* where the caller resumes.
PcAfterWrite(outcome, resume) == resume

BackupEvery(v) == IF v = SEQ THEN BackupEverySeq ELSE BackupEveryOpt

\* `len(complete_entries) % K == 0`
BackupDue(v, entries) == Len(entries) % BackupEvery(v) = 0

----------------------------------------------------------------------------
(***************************************************************************)
(* The sequential resolver, GradCafeScraper._fetch_detailed_entries.       *)
(***************************************************************************)
\* A loop that passes over every other record.
NextEntry_Skip(i) == i + 2

\* `for i, metadata in enumerate(entry_metadata)`: on to the next record.
NextEntry(i) == i + 1

\* One iteration of the for loop, up to the backup it may ask for.
FetchEntry ==
    /\ variant = SEQ
    /\ pc = "detail"
    /\ idx <= Len(entry_metadata)
    /\ \E outcome \in DetailOutcomes :
         LET metadata == entry_metadata[idx]
             detailed_data == FetchSingleEntry(outcome)
             failed == IF outcome \in {"exc", "non200"} THEN 1 ELSE 0
         IN  IF Truthy(detailed_data)
             THEN LET complete_entry == DictMerge(metadata, detailed_data.data)
                      entries == Append(complete_entries, complete_entry)
                  IN  /\ complete_entries' = entries
                      /\ stats' = Counted(stats, detailed_data.data)
                      /\ pc' = IF BackupDue(SEQ, entries) THEN "backup" ELSE "detail"
             ELSE /\ complete_entries' = complete_entries
                  /\ stats' = [stats EXCEPT !.failed_entry_requests = @ + failed]
                  /\ pc' = "detail"
    /\ attempted' = Append(attempted, idx)
    /\ idx' = NextEntry(idx)
    /\ UNCHANGED <<config, stats_lock, cleaner, all_metadata, current_page, consecutive_empty_pages,
                   entry_metadata, tasks, batch_results, clock, writes,
                   lastPage, result>>

----------------------------------------------------------------------------
(***************************************************************************)
(* The batched resolver, OptimizedGradCafeScraper._process_entries_parallel*)
(* and _process_batch_parallel.  idx is batch_num.                         *)
(***************************************************************************)
\* A batch count that leaves a shorter last batch out.
TotalBatches_Floor == Len(entry_metadata) \div batch_size

\* total_batches = (len(entry_metadata) + batch_size - 1) // batch_size
TotalBatches == (Len(entry_metadata) + batch_size - 1) \div batch_size

BatchStart(b) == b * batch_size

BatchEnd(b) == Min(BatchStart(b) + batch_size, Len(entry_metadata))

Running == {i \in DOMAIN tasks : tasks[i].st = "running"}

Queued == {i \in DOMAIN tasks : tasks[i].st = "queued"}

\* Returning from the batch without waiting for the pool.
BatchDrained_NoWait == \A i \in DOMAIN tasks : tasks[i].st # "finished"

\* Leaving the `with ThreadPoolExecutor` block: as_completed has yielded
\* every future and shutdown(wait=True) has joined the workers.
BatchDrained == \A i \in DOMAIN tasks : tasks[i].st = "collected"

\* A pool that starts a thread per submitted task.
WorkerFree_Unbounded == TRUE

\* ThreadPoolExecutor(max_workers=self.max_workers): a queued task starts
\* only while fewer than max_workers tasks run.
WorkerFree == Cardinality(Running) < max_workers

\* Slice the batch and submit one future per metadata record.
StartBatch ==
    /\ variant = OPT
    /\ pc = "batch"
    /\ idx < TotalBatches
    /\ tasks' = [i \in 1..(BatchEnd(idx) - BatchStart(idx)) |->
                   [index |-> BatchStart(idx) + i, st |-> "queued", res |-> NoResult]]
    /\ batch_results' = <<>>
    /\ pc' = "pool"
    /\ UNCHANGED <<config, stats_lock, cleaner, all_metadata, current_page, consecutive_empty_pages,
                   entry_metadata, complete_entries, idx, stats, clock, writes,
                   lastPage, attempted, result>>

\* A pool thread takes the oldest queued task.
WorkerStart ==
    /\ pc = "pool"
    /\ Queued # {}
    /\ WorkerFree
    /\ LET i == CHOOSE q \in Queued : \A r \in Queued : q <= r
       IN  /\ tasks' = [tasks EXCEPT ![i].st = "running"]
           /\ attempted' = Append(attempted, tasks[i].index)
    /\ UNCHANGED <<config, stats_lock, cleaner, pc, all_metadata, current_page,
                   consecutive_empty_pages, entry_metadata, complete_entries,
                   idx, batch_results, stats, clock, writes, lastPage, result>>

\* _fetch_single_entry_safe returns in a pool thread.
WorkerFinish ==
    /\ pc = "pool"
    /\ \E i \in Running, outcome \in DetailOutcomes :
         tasks' = [tasks EXCEPT ![i].st = "finished",
                                ![i].res = FetchSingleEntry(outcome)]
    /\ UNCHANGED <<config, stats_lock, cleaner, pc, all_metadata, current_page,
                   consecutive_empty_pages, entry_metadata, complete_entries,
                   idx, batch_results, stats, clock, writes, lastPage,
                   attempted, result>>

\* The main thread takes one finished future from as_completed.  A truthy
\* result is merged and appended, and the thread enters
\* `with self.stats_lock:`; a raised exception is counted under the lock in
\* the handler; None and {} are passed over.
Collect ==
    /\ pc = "pool"
    /\ ~stats_lock
    /\ \E i \in DOMAIN tasks :
         /\ tasks[i].st = "finished"
         /\ LET metadata == entry_metadata[tasks[i].index]
                res == tasks[i].res
            IN  IF res.raised \/ Truthy(res)
                THEN /\ batch_results' =
                          IF res.raised THEN batch_results
                          ELSE Append(batch_results, DictMerge(metadata, res.data))
                     /\ stats_lock' = TRUE
                     /\ tasks' = [tasks EXCEPT ![i].st = "counting"]
                ELSE /\ batch_results' = batch_results
                     /\ stats_lock' = FALSE
                     /\ tasks' = [tasks EXCEPT ![i].st = "collected"]
    /\ UNCHANGED <<config, cleaner, pc, all_metadata, current_page,
                   consecutive_empty_pages, entry_metadata, complete_entries,
                   idx, stats, clock, writes, lastPage, attempted, result>>

\* The body of `with self.stats_lock:` and the release of the lock.
CountUnderLock ==
    /\ pc = "pool"
    /\ stats_lock
    /\ \E i \in DOMAIN tasks :
         /\ tasks[i].st = "counting"
         /\ stats' = IF tasks[i].res.raised
                     THEN [stats EXCEPT !.failed_requests = @ + 1]
                     ELSE Counted(stats, tasks[i].res.data)
         /\ tasks' = [tasks EXCEPT ![i].st = "collected"]
    /\ stats_lock' = FALSE
    /\ UNCHANGED <<config, cleaner, pc, all_metadata, current_page,
                   consecutive_empty_pages, entry_metadata, complete_entries,
                   idx, batch_results, clock, writes, lastPage, attempted,
                   result>>

\* A batch put in front of the output.
Extend_Front(entries, results) == results \o entries

\* complete_entries.extend(batch_results)
Extend(entries, results) == entries \o results

\* _process_batch_parallel returns; the batch is appended and a backup is
\* asked for when the count is a multiple of the cadence.
EndBatch ==
    /\ pc = "pool"
    /\ BatchDrained
    /\ LET entries == Extend(complete_entries, batch_results)
       IN  /\ complete_entries' = entries
           /\ pc' = IF BackupDue(OPT, entries) THEN "backup" ELSE "batch"
    /\ idx' = idx + 1
    /\ tasks' = <<>>
    /\ batch_results' = <<>>
    /\ UNCHANGED <<config, stats_lock, cleaner, all_metadata, current_page, consecutive_empty_pages,
                   entry_metadata, stats, clock, writes, lastPage, attempted,
                   result>>

----------------------------------------------------------------------------
(***************************************************************************)
(* Persistence and return.                                                 *)
(***************************************************************************)
\* _save_backup (scrape.py:717-725) / _save_progress_backup (main.py:396-404)
SaveBackup ==
    /\ pc = "backup"
    /\ \E outcome \in WriteOutcomes :
       \E now \in (IF variant = SEQ THEN clock..MaxClock ELSE {clock}) :
         /\ writes' = Append(writes,
                             [name    |-> BackupName(variant, complete_entries, now),
                              data    |-> complete_entries,
                              outcome |-> outcome])
         /\ clock' = now
         /\ pc' = PcAfterWrite(outcome, IF variant = SEQ THEN "detail" ELSE "batch")
    /\ UNCHANGED <<config, stats_lock, cleaner, all_metadata, current_page, consecutive_empty_pages,
                   entry_metadata, complete_entries, idx, tasks, batch_results,
                   stats, lastPage, attempted, result>>

\* The resolver returns: scrape_data / scrape_data_optimized save the final
\* data when there is any, and return it.
FinishDetail ==
    /\ \/ variant = SEQ /\ pc = "detail" /\ idx > Len(entry_metadata)
       \/ variant = OPT /\ pc = "batch" /\ idx >= TotalBatches
    /\ pc' = IF complete_entries # <<>> THEN "save" ELSE "done"
    /\ result' = IF complete_entries # <<>> THEN result ELSE complete_entries
    /\ UNCHANGED <<config, stats_lock, cleaner, all_metadata, current_page, consecutive_empty_pages,
                   entry_metadata, complete_entries, idx, tasks, batch_results,
                   stats, clock, writes, lastPage, attempted>>

\* _save_complete_data (scrape.py:727-756, main.py:406-414), then `return`.
SaveCompleteData ==
    /\ pc = "save"
    /\ \E outcome \in WriteOutcomes :
         /\ writes' = Append(writes, [name    |-> CompleteName,
                                      data    |-> complete_entries,
                                      outcome |-> outcome])
         /\ pc' = PcAfterWrite(outcome, "done")
    /\ result' = complete_entries
    /\ UNCHANGED <<config, stats_lock, cleaner, all_metadata, current_page, consecutive_empty_pages,
                   entry_metadata, complete_entries, idx, tasks, batch_results,
                   stats, clock, lastPage, attempted>>

----------------------------------------------------------------------------
(***************************************************************************)
(* main() of main.py: the scrape call, then the cleaning phase.            *)
(***************************************************************************)
\* self.target_fields
TargetFields ==
    {"institution", "program", "notes", "added_on_date", "entry_url",
     "decision", "country_origin", "degree_type"}

\* str.strip() on the values of the model: a blank string becomes empty.
Strip(value) == IF value = " " THEN "" ELSE value

\* dict.get(key); None and "" are both falsy and both are written "".
Get(d, key) == IF key \in DOMAIN d THEN d[key] ELSE ""

\* raw_entry.get(field) or raw_entry.get(f"table_{field}")
FieldValue(raw_entry, field) ==
    IF Get(raw_entry, field) # ""
    THEN Get(raw_entry, field)
    ELSE Get(raw_entry, "table_" \o field)

\* The dict _clean_entry builds: the key, the timestamp and every target
\* field whose value is non-blank.
CleanEntryDict(raw_entry, now) ==
    LET filled == {f \in TargetFields : Strip(FieldValue(raw_entry, f)) # ""}
    IN  [k \in {"entry_id", "processing_timestamp"} \cup filled |->
            CASE k = "entry_id" -> raw_entry["entry_id"]
              [] k = "processing_timestamp" -> now
              [] OTHER -> Strip(FieldValue(raw_entry, k))]

\* `return clean_entry if len(clean_entry) > 2 else None`, then
\* `if clean_entry:` in clean_data.
CleanEntryKept(raw_entry) ==
    Cardinality(DOMAIN CleanEntryDict(raw_entry, 0)) > 2

\* The loop of clean_data over the loaded entries.
CleanAll(raw_data, now) ==
    LET kept == SelectSeq(raw_data, CleanEntryKept)
    IN  [i \in 1..Len(kept) |-> CleanEntryDict(kept[i], now)]

\* gradcafe_complete_data.json as an earlier run left it: one record whose
\* key (0) no page of this run shows.
StaleEntries == <<[k \in {"entry_id", "institution"} |->
                     IF k = "entry_id" THEN 0 ELSE "MIT"]>>

\* What the cleaner finds under the input file name.  A successful final
\* write left this run's data.  A failed one left what was there before
\* (nothing, or an earlier run's file) or a truncated document.
InputFiles ==
    IF writes # <<>> /\ Last(writes).name = CompleteName
                     /\ Last(writes).outcome = "ok"
    THEN {"fresh"}
    ELSE {"absent", "corrupt", "stale"}

\* json.load of the input file; "absent" and "corrupt" make clean_data
\* return [] before anything is loaded.
Loaded(input) ==
    CASE input = "fresh" -> Last(writes).data
      [] input = "stale" -> StaleEntries
      [] OTHER -> <<>>

\* `if not scraped_data: print("No data scraped. Exiting."); return`
MainNoData ==
    /\ variant = OPT
    /\ pc = "done"
    /\ result = <<>>
    /\ pc' = "exit"
    /\ UNCHANGED <<config, stats_lock, cleaner, all_metadata, current_page,
                   consecutive_empty_pages, entry_metadata, complete_entries,
                   idx, tasks, batch_results, stats, clock, writes, lastPage,
                   attempted, result>>

\* GradCafeDataCleaner().clean_data(): load, clean, save, return.
CleanData ==
    /\ variant = OPT
    /\ pc = "done"
    /\ result # <<>>
    /\ \E input \in InputFiles :
         IF input \in {"absent", "corrupt"}
         THEN cleaner' = [ran |-> TRUE, input |-> input,
                          clean_data |-> <<>>, saved |-> "none"]
         ELSE \E outcome \in WriteOutcomes :
                cleaner' = [ran |-> TRUE, input |-> input,
                            clean_data |-> CleanAll(Loaded(input), clock),
                            saved |-> outcome]
    /\ pc' = "exit"
    /\ UNCHANGED <<config, stats_lock, all_metadata, current_page,
                   consecutive_empty_pages, entry_metadata, complete_entries,
                   idx, tasks, batch_results, stats, clock, writes, lastPage,
                   attempted, result>>

Next ==
    \/ FetchPage
    \/ ExitPagination
    \/ FetchEntry
    \/ StartBatch
    \/ WorkerStart
    \/ WorkerFinish
    \/ Collect
    \/ CountUnderLock
    \/ EndBatch
    \/ SaveBackup
    \/ FinishDetail
    \/ SaveCompleteData
    \/ MainNoData
    \/ CleanData

Spec == Init /\ [][Next]_vars

----------------------------------------------------------------------------
(***************************************************************************)
(* The helper functions, one call at a time.                               *)
(*                                                                         *)
(* Specification SpecFn applies the pure helpers of the pipeline to inputs *)
(* drawn from bounded sets; `call` records the function, its argument and  *)
(* what it returned.  No run is in progress: the run variables stand at    *)
(* their initial values.                                                   *)
(***************************************************************************)
InitFn ==
    /\ variant = SEQ
    /\ target_entries = 1
    /\ max_pages = 1
    /\ start_page = 1
    /\ batch_size = BatchSize
    /\ max_workers = 1
    /\ pc = "paginate"
    /\ all_metadata = <<>>
    /\ current_page = start_page
    /\ consecutive_empty_pages = 0
    /\ entry_metadata = <<>>
    /\ complete_entries = <<>>
    /\ idx = 0
    /\ tasks = <<>>
    /\ batch_results = <<>>
    /\ stats = ZeroStats
    /\ clock = 0
    /\ writes = <<>>
    /\ lastPage = NoPage
    /\ attempted = <<>>
    /\ result = <<>>
    /\ stats_lock = FALSE
    /\ cleaner = NotCleaned
    /\ call = NoCall
    /\ order = NewOrder
    /\ input_pizza_calls = 0

\* All the dicts with the given keys among their keys, the optional keys
\* present or not, and values out of `values`.
Dicts(required, optional, values) ==
    UNION {[required \cup o -> values] : o \in SUBSET optional}

\* A metadata record: the key, and columns of the listing row under the
\* detail's own field name or under its table_ name.
MergeMetadata ==
    {DictMerge(m, [k \in {"entry_id"} |-> 1]) :
        m \in Dicts({}, {"institution", "table_institution", "table_program"},
                    {"MIT", "CMU"})}

\* A parsed detail document that passed `if result:`.
MergeResults ==
    {d \in Dicts({}, {"institution", "program"}, {"MIT", "CMU"}) : DictTruthy(d)}

\* complete_entry = {**metadata, **result}, and what _clean_entry reads
\* out of it.
CallMerge ==
    /\ call = NoCall
    /\ \E metadata \in MergeMetadata, res \in MergeResults :
         LET complete_entry == DictMerge(metadata, res)
         IN  call' = [fn  |-> "merge",
                      arg |-> <<metadata, res>>,
                      ret |-> [merged |-> complete_entry,
                               clean  |-> CleanEntryDict(complete_entry, 0)]]
    /\ UNCHANGED run

(***************************************************************************)
(* Text.  A text is a sequence of characters, each a one-character string. *)
(***************************************************************************)
Digits == {"0", "1", "2", "3", "4", "5", "6", "7", "8", "9"}

\* int() of one digit
DigitValue(c) ==
    CASE c = "0" -> 0 [] c = "1" -> 1 [] c = "2" -> 2 [] c = "3" -> 3
      [] c = "4" -> 4 [] c = "5" -> 5 [] c = "6" -> 6 [] c = "7" -> 7
      [] c = "8" -> 8 [] c = "9" -> 9

\* int() of a run of digits
RECURSIVE IntOf(_)
IntOf(ds) ==
    IF ds = <<>> THEN 0
    ELSE 10 * IntOf(SubSeq(ds, 1, Len(ds) - 1)) + DigitValue(ds[Len(ds)])

\* The least element of a non-empty set of integers.
Least(S) == CHOOSE x \in S : \A y \in S : x <= y

(***************************************************************************)
(* GradCafeScraper._parse_individual_entry (scrape.py): the lines of a     *)
(* detail document are parsed into fields, then cleaned and validated.     *)
(* A line is a field label or a text.                                      *)
(***************************************************************************)
LabelLine(key) == [label |-> key, text |-> <<>>]

TextLine(chars) == [label |-> "", text |-> chars]

\* The values the parser passes over ('-' here; 'Submit yours' and the
\* boilerplate sentence are treated alike).
SkippedValues == {<<"-">>}

\* _parse_gradcafe_fields for the labels other than Notes: a label line
\* gives its field the next line, unless that is a label or a skipped
\* value; a later occurrence of the label overwrites an earlier one.
ValueAfter(lines, i) ==
    /\ i + 1 <= Len(lines)
    /\ lines[i + 1].label = ""
    /\ lines[i + 1].text \notin SkippedValues

ParseGradcafeFields(lines) ==
    LET at(k) == {i \in DOMAIN lines : lines[i].label = k /\ ValueAfter(lines, i)}
        keys  == {lines[i].label : i \in {j \in DOMAIN lines :
                                             lines[j].label # "" /\ ValueAfter(lines, j)}}
    IN  [k \in keys |->
            lines[(CHOOSE i \in at(k) : \A j \in at(k) : j <= i) + 1].text]

\* re.search(r'([0-4]\.[0-9]{1,2})', text): the leftmost match, with the
\* second decimal when there is one; <<>> when nothing matches.
GpaMatchAt(text, p) ==
    /\ p + 2 <= Len(text)
    /\ text[p] \in {"0", "1", "2", "3", "4"}
    /\ text[p + 1] = "."
    /\ text[p + 2] \in Digits

GpaSearch(text) ==
    LET starts == {p \in DOMAIN text : GpaMatchAt(text, p)}
    IN  IF starts = {} THEN <<>>
        ELSE LET p == Least(starts)
                 n == IF p + 3 <= Len(text) /\ text[p + 3] \in Digits
                      THEN 4 ELSE 3
             IN  SubSeq(text, p, p + n - 1)

\* str.lower() on a token
Lower(token) ==
    CASE token = "GRE" -> "gre"
      [] token = "Total" -> "total"
      [] token = "Fall" -> "fall"
      [] token = "Spring" -> "spring"
      [] token = "Summer" -> "summer"
      [] token = "Winter" -> "winter"
      [] token = "F" -> "f"
      [] token = "S" -> "s"
      [] token = "Accepted" -> "accepted"
      [] token = "Denied" -> "denied"
      [] token = "Waitlisted" -> "waitlisted"
      [] token = "Interview" -> "interview"
      [] token = "Admitted" -> "admitted"
      [] token = "Pending" -> "pending"
      [] OTHER -> token

LowerText(text) == [i \in DOMAIN text |-> Lower(text[i])]

\* The decision keyword a lower-case word holds as a substring, "" when it
\* holds none.
Keyword(word) ==
    CASE word = "accepted" -> "accept"
      [] word = "rejected" -> "reject"
      [] word = "denied" -> "denied"
      [] word = "waitlisted" -> "waitlist"
      [] word = "interview" -> "interview"
      [] word = "admitted" -> "admit"
      [] OTHER -> ""

\* `keyword in text`, for a decision keyword and a lower-case text of words
KeywordIn(keyword, text) == \E i \in DOMAIN text : Keyword(text[i]) = keyword

\* The if/elif chain on entry_data['decision'].lower() that gives
\* decision_standardized.
StandardizeDecision(decision_text) ==
    LET decision == LowerText(decision_text)
    IN  IF KeywordIn("accept", decision) THEN <<"Accepted">>
        ELSE IF KeywordIn("reject", decision) THEN <<"Rejected">>
        ELSE IF KeywordIn("waitlist", decision) THEN <<"Waitlisted">>
        ELSE IF KeywordIn("interview", decision) THEN <<"Interview">>
        ELSE <<"Other">>

\* _clean_and_validate_entry on a record that carries score fields or a
\* decision: the GPA is replaced by the match when there is one and left
\* as it is otherwise, no other score field is looked at, and a decision
\* gets its standardized form beside it. (The notification and notes
\* fields are not part of these records.)
CleanAndValidateEntry(entry_data) ==
    LET cleaned ==
            IF "gpa" \in DOMAIN entry_data /\ GpaSearch(entry_data["gpa"]) # <<>>
            THEN [entry_data EXCEPT !["gpa"] = GpaSearch(entry_data["gpa"])]
            ELSE entry_data
    IN  IF "decision" \in DOMAIN cleaned
        THEN [k \in DOMAIN cleaned \cup {"decision_standardized"} |->
                 IF k = "decision_standardized"
                 THEN StandardizeDecision(cleaned["decision"])
                 ELSE cleaned[k]]
        ELSE cleaned

\* The raw values a detail document shows after a score label.
RawGpa ==
    {<<"3", ".", "5">>, <<"4", ".", "0", "0">>, <<"4", ".", "7", "5">>,
     <<"9", ".", "1">>, <<"1", "3", ".", "9", "5">>, <<"n", "/", "a">>,
     <<"-">>}

RawGreGeneral == {<<"3", "2", "0">>, <<"3", "4", "1">>, <<"9", "9", "9">>, <<"-">>}

RawGreVerbal == {<<"1", "6", "5">>, <<"1", "7", "1">>, <<"-">>}

RawAnalyticalWriting == {<<"4", ".", "5">>, <<"6", ".", "5">>, <<"-">>}

\* The labels of the score fields, in the order of the document.
ScoreLabels == <<"gpa", "gre_general", "gre_verbal", "analytical_writing">>

\* A detail document: for each score label that is shown, the label line
\* and the line with its value.
RECURSIVE ScoreLines(_, _)
ScoreLines(shown, k) ==
    IF k > Len(ScoreLabels) THEN <<>>
    ELSE (IF ScoreLabels[k] \in DOMAIN shown
          THEN <<LabelLine(ScoreLabels[k]), TextLine(shown[ScoreLabels[k]])>>
          ELSE <<>>) \o ScoreLines(shown, k + 1)

ScoreDocuments ==
    {ScoreLines(shown, 1) :
        shown \in UNION {{DictMerge(DictMerge(g, t), DictMerge(v, w)) :
                            g \in [gk -> RawGpa],
                            t \in [tk -> RawGreGeneral],
                            v \in [vk -> RawGreVerbal],
                            w \in [wk -> RawAnalyticalWriting]} :
                          gk \in SUBSET {"gpa"},
                          tk \in SUBSET {"gre_general"},
                          vk \in SUBSET {"gre_verbal"},
                          wk \in SUBSET {"analytical_writing"}}}

\* entry_data = {}; _parse_gradcafe_fields(lines, entry_data);
\* return _clean_and_validate_entry(entry_data)
CallParseIndividualEntry ==
    /\ call = NoCall
    /\ \E lines \in ScoreDocuments :
         call' = [fn  |-> "_parse_individual_entry",
                  arg |-> lines,
                  ret |-> CleanAndValidateEntry(ParseGradcafeFields(lines))]
    /\ UNCHANGED run

(***************************************************************************)
(* GradCafeDataCleaner._extract_gre_scores (clean.py), the GRE total.      *)
(*                                                                         *)
(* The text under extraction is a sequence of tokens: a letter word is one *)
(* token, and so is a digit, ":" (for ":" and "="), " " (white space).     *)
(***************************************************************************)
\* \s* from position p on: the first position that holds no white space
SkipSpace(text, p) ==
    Least({q \in p..(Len(text) + 1) : q > Len(text) \/ text[q] # " "})

\* an optional token at p: the position after it
SkipOptional(text, p, token) ==
    IF p <= Len(text) /\ text[p] = token THEN p + 1 ELSE p

\* (\d{3}) at p
ThreeDigitsAt(text, p) ==
    p >= 1 /\ p + 2 <= Len(text) /\ \A i \in p..(p + 2) : text[i] \in Digits

\* Where the group of a pattern starts when the pattern matches from p on;
\* 0 when it does not.
\*   1  gre\s*(?:total)?\s*[:=]?\s*(\d{3})
\*   2  total\s*gre\s*[:=]?\s*(\d{3})
\*   3  gre\s*(\d{3})
\*   4  (\d{3})\s*gre
GreGroupAt(k, text, p) ==
    LET at(q, token) == q <= Len(text) /\ text[q] = token
        group(q) == IF ThreeDigitsAt(text, q) THEN q ELSE 0
        sep(q) == SkipSpace(text, SkipOptional(text, SkipSpace(text, q), ":"))
    IN  CASE k = 1 ->
               IF at(p, "gre")
               THEN group(sep(SkipOptional(text, SkipSpace(text, p + 1), "total")))
               ELSE 0
          [] k = 2 ->
               IF at(p, "total") /\ at(SkipSpace(text, p + 1), "gre")
               THEN group(sep(SkipSpace(text, p + 1) + 1))
               ELSE 0
          [] k = 3 ->
               IF at(p, "gre") THEN group(SkipSpace(text, p + 1)) ELSE 0
          [] k = 4 ->
               IF ThreeDigitsAt(text, p) /\ at(SkipSpace(text, p + 3), "gre")
               THEN p ELSE 0

\* re.search(pattern, text_lower): group 1 of the leftmost match, <<>> when
\* there is none.
GreSearch(k, text) ==
    LET starts == {p \in DOMAIN text : GreGroupAt(k, text, p) # 0}
    IN  IF starts = {} THEN <<>>
        ELSE LET g == GreGroupAt(k, text, Least(starts))
             IN  SubSeq(text, g, g + 2)

\* `if 260 <= score <= 340`
ValidGreTotal(score) == GreTotalMin <= score /\ score <= GreTotalMax

\* A loop that stops at the first pattern that matches, valid or not.
RECURSIVE GreTotalFrom_StopAtMatch(_, _)
GreTotalFrom_StopAtMatch(k, text) ==
    IF k > 4 THEN <<>>
    ELSE LET group == GreSearch(k, text)
         IN  IF group # <<>>
             THEN (IF ValidGreTotal(IntOf(group)) THEN group ELSE <<>>)
             ELSE GreTotalFrom_StopAtMatch(k + 1, text)

\* The loop over gre_total_patterns from pattern k on: the first pattern
\* whose match is a valid score sets gre_score and ends the loop; <<>> is
\* the empty string the field starts with.
RECURSIVE GreTotalFrom(_, _)
GreTotalFrom(k, text) ==
    IF k > 4 THEN <<>>
    ELSE LET group == GreSearch(k, text)
         IN  IF group # <<>> /\ ValidGreTotal(IntOf(group))
             THEN group
             ELSE GreTotalFrom(k + 1, text)

\* The words and numbers a text is made of.
GreParts ==
    {<<"GRE">>, <<"Total">>, <<":">>, <<" ">>, <<"x">>,
     <<"2", "5", "9">>, <<"2", "6", "0">>, <<"3", "4", "0">>, <<"3", "4", "1">>}

RECURSIVE Concat(_)
Concat(parts) ==
    IF parts = <<>> THEN <<>> ELSE Head(parts) \o Concat(Tail(parts))

TextsOf(parts) ==
    {Concat(ps) : ps \in UNION {[1..n -> parts] : n \in 1..MaxParts}}

\* text_lower = text.lower(); the loop over the patterns of the GRE total.
CallExtractGreScores ==
    /\ call = NoCall
    /\ \E text \in TextsOf(GreParts) :
         call' = [fn  |-> "_extract_gre_scores",
                  arg |-> text,
                  ret |-> GreTotalFrom(1, LowerText(text))]
    /\ UNCHANGED run

----------------------------------------------------------------------------
(***************************************************************************)
(* clean.py: the completeness score of a cleaned entry.                    *)
(***************************************************************************)
\* important_fields of _calculate_completeness.
ImportantFields ==
    {"program_name", "university", "applicant_status", "gre_score", "gpa",
     "masters_or_phd", "international_american_student",
     "semester_and_year_program_start"}

\* Python's round() of the exact quotient n / d, n >= 0 and d > 0: to the
\* nearest integer, a tie to the even one.
Round(n, d) ==
    LET q == n \div d
        r == n % d
    IN  IF 2 * r < d THEN q
        ELSE IF 2 * r > d THEN q + 1
        ELSE IF q % 2 = 0 THEN q ELSE q + 1

\* A filled field counted by the key being there, an empty string included.
FilledFields_KeyPresent(cleaned_entry) ==
    Cardinality({field \in ImportantFields : field \in DOMAIN cleaned_entry})

\* sum(1 for field in important_fields if cleaned_entry.get(field)): a
\* missing key and an empty string both count as not filled.
FilledFields(cleaned_entry) ==
    Cardinality({field \in ImportantFields :
                    /\ field \in DOMAIN cleaned_entry
                    /\ cleaned_entry[field] # ""})

\* round((filled_fields / len(important_fields)) * 100); the quotients k/8
\* and their products with 100 are exact in binary floating point.
CalculateCompleteness(cleaned_entry) ==
    Round(FilledFields(cleaned_entry) * 100, Cardinality(ImportantFields))

\* Cleaned entries: each important field missing, empty or filled, and a
\* field that is not important empty or filled.
CleanedEntries ==
    UNION {[D \cup {"comments"} -> {"", "x"}] : D \in SUBSET ImportantFields}

CallCalculateCompleteness ==
    /\ call = NoCall
    /\ \E cleaned_entry \in CleanedEntries :
         call' = [fn  |-> "_calculate_completeness",
                  arg |-> cleaned_entry,
                  ret |-> CalculateCompleteness(cleaned_entry)]
    /\ UNCHANGED run

----------------------------------------------------------------------------
(***************************************************************************)
(* Season extraction: GradCafeScraper._parse_season_code (scrape.py) and   *)
(* GradCafeDataCleaner._extract_semester_year (clean.py).                  *)
(*                                                                         *)
(* The text is a sequence of tokens: a letter word is one token (a season  *)
(* name, the code letters "F" and "S", or "x" for any other run of         *)
(* letters), and so is a digit, "'" (a quote) and " " (white space).       *)
(***************************************************************************)
YearMin == 2020
YearMax == 2030

\* The season names of the patterns, in lower case and in pattern order.
SeasonWords == <<"fall", "spring", "summer", "winter">>

\* str.title() on a token
Title(token) ==
    CASE token = "fall" -> "Fall"
      [] token = "spring" -> "Spring"
      [] token = "summer" -> "Summer"
      [] token = "winter" -> "Winter"
      [] OTHER -> token

TitleText(text) == [i \in DOMAIN text |-> Title(text[i])]

\* len() of a token, in characters
TokenLen(token) ==
    CASE Lower(token) = "fall" -> 4
      [] Lower(token) \in {"spring", "summer", "winter"} -> 6
      [] OTHER -> 1

\* len() of a text, in characters
RECURSIVE CharLen(_)
CharLen(text) ==
    IF text = <<>> THEN 0 ELSE TokenLen(Head(text)) + CharLen(Tail(text))

\* \w
IsWordChar(token) == token \notin {" ", "'"}

\* \b before position p (p = Len(text) + 1: at the end of the text)
Boundary(text, p) ==
    (p > 1 /\ IsWordChar(text[p - 1])) # (p <= Len(text) /\ IsWordChar(text[p]))

\* \d{n} at p
DigitsAt(text, p, n) ==
    p >= 1 /\ p + n - 1 <= Len(text) /\ \A i \in p..(p + n - 1) : text[i] \in Digits

\* `s in text`
Contains(text, s) ==
    \E p \in 1..(Len(text) - Len(s) + 1) : SubSeq(text, p, p + Len(s) - 1) = s

\* The greatest element of a non-empty set of integers.
Greatest(S) == CHOOSE x \in S : \A y \in S : y <= x

\* text.strip()
StripText(text) ==
    LET kept == {i \in DOMAIN text : text[i] # " "}
    IN  IF kept = {} THEN <<>> ELSE SubSeq(text, Least(kept), Greatest(kept))

\* season_mapping, in the order of the dict
SeasonMapping ==
    << [code |-> <<"F", "2", "5">>, full_name |-> <<"Fall", " ", "2", "0", "2", "5">>],
       [code |-> <<"S", "2", "5">>, full_name |-> <<"Spring", " ", "2", "0", "2", "5">>],
       [code |-> <<"F", "2", "4">>, full_name |-> <<"Fall", " ", "2", "0", "2", "4">>],
       [code |-> <<"S", "2", "4">>, full_name |-> <<"Spring", " ", "2", "0", "2", "4">>],
       [code |-> <<"F", "2", "3">>, full_name |-> <<"Fall", " ", "2", "0", "2", "3">>],
       [code |-> <<"S", "2", "3">>, full_name |-> <<"Spring", " ", "2", "0", "2", "3">>],
       [code |-> <<"F", "2", "2">>, full_name |-> <<"Fall", " ", "2", "0", "2", "2">>],
       [code |-> <<"S", "2", "2">>, full_name |-> <<"Spring", " ", "2", "0", "2", "2">>],
       [code |-> <<"F", "2", "1">>, full_name |-> <<"Fall", " ", "2", "0", "2", "1">>],
       [code |-> <<"S", "2", "1">>, full_name |-> <<"Spring", " ", "2", "0", "2", "1">>],
       [code |-> <<"F", "2", "0">>, full_name |-> <<"Fall", " ", "2", "0", "2", "0">>],
       [code |-> <<"S", "2", "0">>, full_name |-> <<"Spring", " ", "2", "0", "2", "0">>],
       [code |-> <<"F", "1", "9">>, full_name |-> <<"Fall", " ", "2", "0", "1", "9">>],
       [code |-> <<"S", "1", "9">>, full_name |-> <<"Spring", " ", "2", "0", "1", "9">>],
       [code |-> <<"F", "2", "6">>, full_name |-> <<"Fall", " ", "2", "0", "2", "6">>],
       [code |-> <<"S", "2", "6">>, full_name |-> <<"Spring", " ", "2", "0", "2", "6">>] >>

\* The entries of season_mapping whose code is in the text.
MappingHits(text) ==
    {i \in DOMAIN SeasonMapping : Contains(text, SeasonMapping[i].code)}

\* \b([FS]\d{2})\b at p
SeasonCodeAt(text, p) ==
    /\ Boundary(text, p)
    /\ text[p] \in {"F", "S"}
    /\ DigitsAt(text, p + 1, 2)
    /\ Boundary(text, p + 3)

\* What the code found by the pattern is converted to.
DecodeSeasonCode(code) ==
    LET known == {i \in DOMAIN SeasonMapping : SeasonMapping[i].code = code}
    IN  IF known # {} THEN SeasonMapping[Least(known)].full_name
        ELSE IF code[1] = "F" THEN <<"Fall", " ", "2", "0">> \o Tail(code)
        ELSE <<"Spring", " ", "2", "0">> \o Tail(code)

\* \b(<word>\s*20\d{2})\b at p, ignoring case: the position of the last
\* token of the match, 0 when there is no match at p.
FullSeasonEnd(word, text, p) ==
    IF Boundary(text, p) /\ Lower(text[p]) = word
    THEN LET q == SkipSpace(text, p + 1)
         IN  IF /\ q + 1 <= Len(text)
                /\ text[q] = "2" /\ text[q + 1] = "0"
                /\ DigitsAt(text, q + 2, 2)
                /\ Boundary(text, q + 4)
             THEN q + 3 ELSE 0
    ELSE 0

\* re.search of the full-season pattern of a word: group 1 of the leftmost
\* match as it stands in the text, <<>> when there is none.
FullSeasonSearch(word, text) ==
    LET starts == {p \in DOMAIN text : FullSeasonEnd(word, text, p) # 0}
    IN  IF starts = {} THEN <<>>
        ELSE SubSeq(text, Least(starts), FullSeasonEnd(word, text, Least(starts)))

\* The loop over full_season_patterns from pattern k on.
RECURSIVE FullSeasonFrom(_, _)
FullSeasonFrom(k, text) ==
    IF k > Len(SeasonWords) THEN <<>>
    ELSE LET match == FullSeasonSearch(SeasonWords[k], text)
         IN  IF match # <<>> THEN match ELSE FullSeasonFrom(k + 1, text)

\* _parse_season_code(text); <<>> is None.
ParseSeasonCode(text) ==
    IF text = <<>> THEN <<>>
    ELSE LET stripped == StripText(text)
             hits == MappingHits(stripped)
             codes == {p \in DOMAIN stripped : SeasonCodeAt(stripped, p)}
         IN  IF hits # {} THEN SeasonMapping[Least(hits)].full_name
             ELSE IF codes # {}
                  THEN DecodeSeasonCode(SubSeq(stripped, Least(codes), Least(codes) + 2))
             ELSE FullSeasonFrom(1, stripped)

\* The groups of a semester_year_patterns pattern matching from p on, <<>>
\* when it does not match there.
\*   1  (fall|spring|summer|winter)\s*(\d{4})
\*   2  (\d{4})\s*(fall|spring|summer|winter)
\*   3  (fall|spring|summer|winter)\s*[\'"]?(\d{2})
SemesterYearAt(k, text, p) ==
    LET season(q) ==
            q <= Len(text) /\ \E i \in DOMAIN SeasonWords : text[q] = SeasonWords[i]
        groups(a, n, b, m) == <<SubSeq(text, a, a + n - 1), SubSeq(text, b, b + m - 1)>>
    IN  CASE k = 1 ->
               LET q == SkipSpace(text, p + 1)
               IN  IF season(p) /\ DigitsAt(text, q, 4)
                   THEN groups(p, 1, q, 4) ELSE <<>>
          [] k = 2 ->
               LET q == SkipSpace(text, p + 4)
               IN  IF DigitsAt(text, p, 4) /\ season(q)
                   THEN groups(p, 4, q, 1) ELSE <<>>
          [] k = 3 ->
               LET q == SkipOptional(text, SkipSpace(text, p + 1), "'")
               IN  IF season(p) /\ DigitsAt(text, q, 2)
                   THEN groups(p, 1, q, 2) ELSE <<>>

\* re.search(pattern, text_lower): the groups of the leftmost match
SemesterYearSearch(k, text) ==
    LET starts == {p \in DOMAIN text : SemesterYearAt(k, text, p) # <<>>}
    IN  IF starts = {} THEN <<>> ELSE SemesterYearAt(k, text, Least(starts))

\* \b(20\d{2})\b at p
YearAt(text, p) ==
    /\ Boundary(text, p)
    /\ p + 1 <= Len(text)
    /\ text[p] = "2" /\ text[p + 1] = "0"
    /\ DigitsAt(text, p + 2, 2)
    /\ Boundary(text, p + 4)

\* The year-only fallback, on the text as given.
YearOnly(text) ==
    LET starts == {p \in DOMAIN text : YearAt(text, p)}
    IN  IF starts = {} THEN <<>>
        ELSE LET year == SubSeq(text, Least(starts), Least(starts) + 3)
             IN  IF YearMin <= IntOf(year) /\ IntOf(year) <= YearMax
                 THEN year ELSE <<>>

\* The loop over semester_year_patterns from pattern k on, then the
\* fallback; <<>> is the empty string the field starts with.
RECURSIVE SemesterYearFrom(_, _)
SemesterYearFrom(k, text) ==
    IF k > 3 THEN YearOnly(text)
    ELSE LET match == SemesterYearSearch(k, LowerText(text))
         IN  IF match # <<>>
             THEN LET year == IF CharLen(match[2]) = 2
                              THEN <<"2", "0">> \o match[2] ELSE match[2]
                  IN  TitleText(match[1]) \o <<" ">> \o year
             ELSE SemesterYearFrom(k + 1, text)

\* _extract_semester_year(text, cleaned_entry): the value of
\* semester_and_year_program_start afterwards.
ExtractSemesterYear(text) == SemesterYearFrom(1, text)

\* The words and numbers a cell or an entry text is made of.
SeasonParts ==
    {<<"F", "2", "5">>, <<"S", "9", "9">>, <<"Fall">>, <<"summer">>,
     <<"2", "0", "2", "4">>, <<"2", "4">>, <<" ">>, <<"x">>}

CallParseSeasonCode ==
    /\ call = NoCall
    /\ \E text \in TextsOf(SeasonParts) :
         call' = [fn  |-> "_parse_season_code",
                  arg |-> text,
                  ret |-> ParseSeasonCode(text)]
    /\ UNCHANGED run

CallExtractSemesterYear ==
    /\ call = NoCall
    /\ \E text \in TextsOf(SeasonParts) :
         call' = [fn  |-> "_extract_semester_year",
                  arg |-> text,
                  ret |-> ExtractSemesterYear(text)]
    /\ UNCHANGED run

----------------------------------------------------------------------------
(***************************************************************************)
(* Decision classification: the decision part of                           *)
(* GradCafeScraper._clean_and_validate_entry (scrape.py) and               *)
(* GradCafeDataCleaner._extract_decision_dates (clean.py).                 *)
(* A decision text is a sequence of words and white space.                 *)
(***************************************************************************)
\* The date a cleaned entry carries as date_information_added.
DateAdded == <<"date">>

\* _extract_decision_dates on a cleaned entry: the entry afterwards.
ExtractDecisionDates(cleaned_entry) ==
    LET status == LowerText(cleaned_entry.applicant_status)
        date_added == cleaned_entry.date_information_added
    IN  IF KeywordIn("accept", status) \/ KeywordIn("admit", status)
        THEN [cleaned_entry EXCEPT !.acceptance_date = date_added]
        ELSE IF KeywordIn("reject", status) \/ KeywordIn("denied", status)
        THEN [cleaned_entry EXCEPT !.rejection_date = date_added]
        ELSE cleaned_entry

\* The words a decision text is made of.
DecisionParts ==
    {<<"Accepted">>, <<"rejected">>, <<"Denied">>, <<"Waitlisted">>,
     <<"Interview">>, <<"Admitted">>, <<"Pending">>, <<" ">>}

CallCleanAndValidateEntry ==
    /\ call = NoCall
    /\ \E text \in TextsOf(DecisionParts) :
         call' = [fn  |-> "_clean_and_validate_entry",
                  arg |-> [decision |-> text],
                  ret |-> CleanAndValidateEntry([decision |-> text])]
    /\ UNCHANGED run

CallExtractDecisionDates ==
    /\ call = NoCall
    /\ \E text \in TextsOf(DecisionParts) :
         LET cleaned_entry == [applicant_status |-> text,
                               date_information_added |-> DateAdded,
                               acceptance_date |-> <<>>,
                               rejection_date |-> <<>>]
         IN  call' = [fn  |-> "_extract_decision_dates",
                      arg |-> cleaned_entry,
                      ret |-> ExtractDecisionDates(cleaned_entry)]
    /\ UNCHANGED run

----------------------------------------------------------------------------
(***************************************************************************)
(* GradCafeScraper._find_results_table (scrape.py).  A document is the     *)
(* sequence of its tables in document order; a table is known by the       *)
(* number of its rows and by how many of the header keywords the text of   *)
(* its first row contains (none when it has no row).                       *)
(***************************************************************************)
\* Tables: [rows, keywords].
Tables ==
    {t \in [rows : 0..MaxTableRows, keywords : 0..MaxKeywords] :
        t.rows = 0 => t.keywords = 0}

Documents == UNION {[1..n -> Tables] : n \in 0..MaxTables}

\* The loop over the tables: the first one with a first row whose text
\* contains any keyword; 0 when the loop ends without a return.
FirstWithKeyword(tables) ==
    LET found == {i \in DOMAIN tables : tables[i].rows > 0 /\ tables[i].keywords > 0}
    IN  IF found = {} THEN 0 ELSE Least(found)

\* max(tables, key=lambda t: len(t.find_all('tr'))): the first table among
\* those with the most rows.
LargestTable(tables) ==
    Least({i \in DOMAIN tables : \A j \in DOMAIN tables : tables[j].rows <= tables[i].rows})

\* _find_results_table(soup): the position of the table returned in the
\* document, 0 for None.
FindResultsTable(tables) ==
    IF FirstWithKeyword(tables) # 0 THEN FirstWithKeyword(tables)
    ELSE IF tables # <<>> /\ tables[LargestTable(tables)].rows > LargestMinRows
         THEN LargestTable(tables)
    ELSE 0

CallFindResultsTable ==
    /\ call = NoCall
    /\ \E tables \in Documents :
         call' = [fn  |-> "_find_results_table",
                  arg |-> tables,
                  ret |-> FindResultsTable(tables)]
    /\ UNCHANGED run

----------------------------------------------------------------------------
(***************************************************************************)
(* GradCafeDataCleaner.clean_data of main.py on a loaded list of raw       *)
(* entries.                                                                *)
(***************************************************************************)
\* The values a JSON document gives a field: empty, blank or a text.
RawValues == {"", " ", "MIT"}

\* Raw entries: the key, a target field and its table_ fallback each
\* absent or with a value, and a field that is no target field.
RawEntries ==
    UNION {{[k \in {"entry_id", "gpa"} \cup DOMAIN fields |->
                CASE k = "entry_id" -> id
                  [] k = "gpa" -> "3.9"
                  [] OTHER -> fields[k]] :
               id \in 1..MaxRaw,
               fields \in UNION {[D -> RawValues] :
                                   D \in SUBSET {"institution", "table_institution"}}}}

RawData == UNION {[1..n -> RawEntries] : n \in 0..MaxRaw}

CallCleanData ==
    /\ call = NoCall
    /\ \E raw_data \in RawData :
         call' = [fn  |-> "clean_data",
                  arg |-> raw_data,
                  ret |-> CleanAll(raw_data, 0)]
    /\ UNCHANGED run

----------------------------------------------------------------------------
(***************************************************************************)
(* The listing parsers: GradCafeScraper._parse_results_table with          *)
(* _extract_row_metadata (scrape.py) and                                   *)
(* OptimizedGradCafeScraper._extract_metadata_from_soup (main.py), on the  *)
(* rows of one table.  A row is known by the number of its cells and by    *)
(* its links in document order; a link is [id |-> the number in its href]  *)
(* when the href has /result/<id>, and NoMatch otherwise.                  *)
(***************************************************************************)
NoMatch == [href |-> "other"]

\* The tables parsed: rows of one cell too few or of just enough cells,
\* with up to two links each.
ListingTables ==
    LET Links    == {NoMatch, [id |-> 1], [id |-> 2]}
        LinkSeqs == UNION {[1..n -> Links] : n \in 0..2} \cup {<<[id |-> 0]>>}
        Rows     == [cells : {MinCells - 1, MinCells}, links : LinkSeqs]
    IN  UNION {[1..n -> Rows] : n \in 0..MaxListingRows}

\* The loop over the links of a row: the first one whose href matches
\* /result/(\d+); NoMatch when none does.
FirstResultLink(links) ==
    LET matching == {i \in DOMAIN links : links[i] # NoMatch}
    IN  IF matching = {} THEN NoMatch ELSE links[Least(matching)]

\* _extract_row_metadata (scrape.py): <<>> for None, else the one record.
ExtractRowMetadata(row) ==
    IF row.cells < MinCells THEN <<>>
    ELSE LET link == FirstResultLink(row.links)
         IN  IF link = NoMatch THEN <<>>               \* entry_id is None
             ELSE IF link.id = 0 THEN <<>>             \* `if not entry_id`
             ELSE <<RowMetadata(link.id)>>

\* The body of the loop over rows[1:] in _extract_metadata_from_soup
\* (main.py): the record of the first matching link of the row, if any.
ExtractFromRow(row) ==
    LET link == FirstResultLink(row.links)
    IN  IF link = NoMatch THEN <<>> ELSE <<RowMetadata(link.id)>>

\* _parse_results_table (scrape.py) gives up on a table of fewer than 2
\* rows; both parsers skip the first row and append the records of the
\* other rows in order.
ParseListing(v, rows) ==
    LET RECURSIVE From(_)
        From(k) ==
            IF k > Len(rows) THEN <<>>
            ELSE (IF v = SEQ THEN ExtractRowMetadata(rows[k])
                             ELSE ExtractFromRow(rows[k])) \o From(k + 1)
    IN  IF v = SEQ /\ Len(rows) < 2 THEN <<>> ELSE From(2)

CallParseListing ==
    /\ call = NoCall
    /\ \E v \in {SEQ, OPT}, rows \in ListingTables :
         call' = [fn  |-> "parse_listing",
                  arg |-> [variant |-> v, rows |-> rows],
                  ret |-> ParseListing(v, rows)]
    /\ UNCHANGED run

\* The caller is done with the value returned.
Return ==
    /\ call # NoCall
    /\ call' = NoCall
    /\ UNCHANGED run

NextFn ==
    \/ CallMerge
    \/ CallParseIndividualEntry
    \/ CallExtractGreScores
    \/ CallCalculateCompleteness
    \/ CallParseSeasonCode
    \/ CallExtractSemesterYear
    \/ CallCleanAndValidateEntry
    \/ CallExtractDecisionDates
    \/ CallFindResultsTable
    \/ CallCleanData
    \/ CallParseListing
    \/ Return

SpecFn == InitFn /\ [][NextFn]_vars

----------------------------------------------------------------------------
(***************************************************************************)
(* module_4: Pizza (pizza.py) and Order (order.py).  One Order object is   *)
(* driven by input_pizza and order_paid calls; `call` holds the last call. *)
(***************************************************************************)
CRUST_PRICES == ("thin" :> 5) @@ ("thick" :> 6) @@ ("gluten free" :> 8)

SAUCE_PRICES == ("marinara" :> 2) @@ ("pesto" :> 3) @@ ("liv" :> 5)

TOPPING_PRICES == ("pineapple" :> 1) @@ ("pepperoni" :> 2) @@ ("mushrooms" :> 3)

\* prices.get(key, 0)
PriceGet(prices, key) == IF key \in DOMAIN prices THEN prices[key] ELSE 0

\* Pizza.__init__: the four attributes are stored as given.
Pizza(crust, sauce, cheese, toppings) ==
    [crust |-> crust, sauce |-> sauce, cheese |-> cheese, toppings |-> toppings]

\* The loop of Pizza.cost over self.toppings.
RECURSIVE ToppingsCost(_)
ToppingsCost(toppings) ==
    IF toppings = <<>> THEN 0
    ELSE PriceGet(TOPPING_PRICES, Head(toppings)) + ToppingsCost(Tail(toppings))

\* A cost that leaves the toppings out.
Cost_NoToppings(pizza) ==
    PriceGet(CRUST_PRICES, pizza.crust) + PriceGet(SAUCE_PRICES, pizza.sauce)

\* Pizza.cost
Cost(pizza) ==
    PriceGet(CRUST_PRICES, pizza.crust) + PriceGet(SAUCE_PRICES, pizza.sauce)
        + ToppingsCost(pizza.toppings)

\* The arguments of the calls: known and unknown crusts, sauces, toppings.
Crusts == {"thin", "gluten free", "stuffed"}

Sauces == {"pesto", "bbq"}

ToppingLists == {<<>>, <<"pineapple", "mushrooms">>, <<"olives">>}

InitOrder == InitFn

\* Order.input_pizza(crust, sauce, cheese, toppings)
InputPizza ==
    /\ input_pizza_calls < MaxPizzas
    /\ \E crust \in Crusts, sauce \in Sauces, toppings \in ToppingLists :
         LET pizza == Pizza(crust, sauce, "mozzarella", toppings)
         IN  /\ order' = [order EXCEPT !.pizzas = Append(@, pizza),
                                       !.total_cost = @ + Cost(pizza)]
             /\ call' = [fn  |-> "input_pizza",
                         arg |-> <<crust, sauce, "mozzarella", toppings>>,
                         ret |-> "None"]
    /\ input_pizza_calls' = input_pizza_calls + 1
    /\ UNCHANGED scraper

\* Order.order_paid()
OrderPaid ==
    /\ order' = [order EXCEPT !.paid = TRUE]
    /\ call' = [fn |-> "order_paid", arg |-> <<>>, ret |-> "None"]
    /\ UNCHANGED <<scraper, input_pizza_calls>>

NextOrder ==
    \/ InputPizza
    \/ OrderPaid

SpecOrder == InitOrder /\ [][NextOrder]_vars

----------------------------------------------------------------------------
(***************************************************************************)
(* Properties.                                                             *)
(***************************************************************************)
\* A step that requests a listing page.
PageFetched == lastPage'.page # lastPage.page /\ lastPage'.page # 0

FailedCounter ==
    IF variant = SEQ THEN stats.failed_entry_requests ELSE stats.failed_requests

Backups == {i \in DOMAIN writes : writes[i].name.base # CompleteName.base}

\* C1: the accumulated output holds at most one record per canonical key
\* (entry_id), whatever the listing pages repeated.
C1_OneRecordPerKey ==
    \A i, j \in DOMAIN complete_entries :
        i # j => complete_entries[i]["entry_id"] # complete_entries[j]["entry_id"]

\* C2: a step requests a further listing page exactly when it starts at the
\* loop check with count < target_entries, page index <= max_pages and
\* fewer than 3 consecutive empty pages; the page requested is the current one.
C2_FetchIffLoopCondition ==
    [][ /\ PageFetched <=>
            /\ pc = "paginate"
            /\ Len(all_metadata) < target_entries
            /\ current_page <= max_pages
            /\ consecutive_empty_pages < 3
        /\ PageFetched => lastPage'.page = current_page ]_vars

\* C2 witness: the loop stands at its check after some pages and only the
\* page cap stops it.
C2_Witness ==
    /\ pc = "paginate"
    /\ lastPage.page >= 2
    /\ current_page > max_pages
    /\ Len(all_metadata) < target_entries
    /\ consecutive_empty_pages < 3

\* C3: the empty-page counter starts at 0, grows by one with every empty
\* page and falls back to 0 with every page that has a row; once it is 3 no
\* further page is requested, whatever the entry count and the page cap.
C3_CircuitBreaker ==
    [][ /\ lastPage.page = 0 => consecutive_empty_pages = 0
        /\ PageFetched /\ lastPage'.rows = 0 =>
              consecutive_empty_pages' = consecutive_empty_pages + 1
        /\ PageFetched /\ lastPage'.rows > 0 => consecutive_empty_pages' = 0
        /\ consecutive_empty_pages' <= 3
        /\ consecutive_empty_pages >= 3 => ~PageFetched ]_vars

\* C3 witness: the loop stands at its check with three empty pages in a row
\* after a page with rows, the target unmet and the page cap not reached.
C3_Witness ==
    /\ pc = "paginate"
    /\ consecutive_empty_pages = 3
    /\ all_metadata # <<>>
    /\ Len(all_metadata) < target_entries
    /\ current_page <= max_pages

\* C4: a listing page whose requests all fail, or whose document has no
\* table row, adds no row, advances the empty-page counter by exactly one
\* and leaves the loop at its check for the next page index; the metadata
\* collected so far is kept.
C4_FailedPageIsEmpty ==
    [][ PageFetched /\ lastPage'.kind \in {"failed", "notable"} =>
          /\ lastPage'.rows = 0
          /\ all_metadata' = all_metadata
          /\ consecutive_empty_pages' = consecutive_empty_pages + 1
          /\ current_page' = current_page + 1
          /\ pc' = "paginate" ]_vars

\* C4 witness: a page failed after metadata had been collected, and the
\* loop is back at its check with the metadata intact.
C4_Witness ==
    /\ pc = "paginate"
    /\ lastPage.kind = "failed"
    /\ all_metadata # <<>>
    /\ current_page = lastPage.page + 1

\* C5: at the end of the run the failure counter equals the number of
\* metadata records that produced no output record.
C5_FailureCounterCountsDrops ==
    pc = "done" => FailedCounter = Len(entry_metadata) - Len(complete_entries)

\* C6: batches are a barrier: results are appended to the accumulated set,
\* and a checkpoint is written, only when no task of the batch is queued or
\* running; every task in the pool belongs to the current batch.
C6_BatchBarrier ==
    [][ /\ complete_entries' # complete_entries =>
              \A i \in DOMAIN tasks : tasks[i].st \in {"finished", "collected"}
        /\ writes' # writes => Running = {} /\ Queued = {}
        /\ \A i \in DOMAIN tasks' :
              /\ tasks'[i].index > BatchStart(idx')
              /\ tasks'[i].index <= BatchEnd(idx') ]_vars

\* C6 witness: a task of a later batch runs after an earlier batch was
\* appended and checkpointed.
C6_Witness ==
    /\ variant = OPT
    /\ pc = "pool"
    /\ idx >= 1
    /\ Running # {}
    /\ complete_entries # <<>>
    /\ writes # <<>>

\* C7: the number of detail fetches in flight never exceeds max_workers.
C7_BoundedInFlight == Cardinality(Running) <= max_workers

\* C7 witness: the pool is full while a task of the batch still waits.
C7_Witness ==
    /\ variant = OPT
    /\ Cardinality(Running) = max_workers
    /\ Queued # {}

\* C8: no checkpoint is written for an empty accumulated set; between loop
\* iterations every multiple of the cadence that the accumulated count has
\* reached has a backup of at least that many records; a completed run that
\* has records ends with the final write.
C8_CheckpointEveryK ==
    /\ \A i \in DOMAIN writes : writes[i].data # <<>>
    /\ pc \in {"detail", "batch", "save", "done"} =>
          \A m \in 1..Len(complete_entries) :
              m % BackupEvery(variant) = 0 =>
                  \E i \in Backups : Len(writes[i].data) >= m
    /\ pc = "done" /\ complete_entries # <<>> =>
          writes # <<>> /\ Last(writes).name = CompleteName

\* C9: no two writes of a run go to the same file name.
C9_UniqueArtifactNames ==
    \A i, j \in DOMAIN writes : i # j => writes[i].name # writes[j].name

\* C10: a write that fails changes neither the accumulated set nor the
\* counters nor the metadata still to resolve, and the run goes on: when it
\* is done every metadata record has been attempted and the call returns the
\* accumulated set.
C10_WriteFailureIsNonFatal ==
    /\ [][ writes' # writes /\ Last(writes').outcome # "ok" =>
             /\ complete_entries' = complete_entries
             /\ stats' = stats
             /\ entry_metadata' = entry_metadata
             /\ idx' = idx ]_vars
    /\ [](pc = "done" => /\ result = complete_entries
                         /\ Len(attempted) = Len(entry_metadata))

\* C10 witness: a run that lost a backup write has resolved further entries
\* afterwards and returned all of them.
C10_Witness ==
    /\ pc = "done"
    /\ result = complete_entries
    /\ \E i \in Backups :
          /\ writes[i].outcome # "ok"
          /\ Len(writes[i].data) < Len(complete_entries)

\* The run is over: scrape.py returns from scrape_data, main.py from main().
Ended == (variant = SEQ /\ pc = "done") \/ pc = "exit"

\* C11: a pagination that ends with no row-metadata record makes the call
\* return an empty result with no detail fetch, no checkpoint, no final data
\* file and no cleaning phase; a run that collected metadata goes on to
\* completion whatever else fails: it ends with the final data file written
\* (or at least attempted) and, in main.py, with the cleaning phase.
C11_OnlyZeroMetadataIsFatal ==
    /\ pc # "paginate" /\ entry_metadata = <<>> =>
          /\ pc \in {"done", "exit"}
          /\ result = <<>>
          /\ attempted = <<>>
          /\ writes = <<>>
          /\ ~cleaner.ran
    /\ Ended /\ entry_metadata # <<>> =>
          /\ Len(attempted) = Len(entry_metadata)
          /\ writes # <<>> /\ Last(writes).name = CompleteName
          /\ variant = OPT => cleaner.ran

\* C12: in every merged record each field has the detail record's value
\* when the detail record has that field and the metadata's value otherwise,
\* and no metadata field is missing from the merge; the cleaner reads a
\* target field the same way, the detail's value before the listing's
\* table_ column.
C12_DetailOverridesMetadata ==
    call.fn = "merge" =>
        LET metadata == call.arg[1]
            detail   == call.arg[2]
            merged   == call.ret.merged
            clean    == call.ret.clean
        IN  /\ DOMAIN merged = DOMAIN metadata \cup DOMAIN detail
            /\ \A k \in DOMAIN detail : merged[k] = detail[k]
            /\ \A k \in DOMAIN metadata \ DOMAIN detail : merged[k] = metadata[k]
            /\ \A f \in {"institution", "program"} :
                  /\ f \in DOMAIN detail => clean[f] = detail[f]
                  /\ f \notin DOMAIN detail /\ f \in DOMAIN metadata =>
                        clean[f] = metadata[f]
                  /\ f \notin DOMAIN merged /\ ("table_" \o f) \in DOMAIN metadata =>
                        clean[f] = metadata["table_" \o f]

\* C12 witness: both records carry `institution` with different values, the
\* merge has the detail's, and a table_ column only the metadata has is kept.
C12_Witness ==
    /\ call.fn = "merge"
    /\ "institution" \in DOMAIN call.arg[1] \cap DOMAIN call.arg[2]
    /\ call.arg[1]["institution"] # call.arg[2]["institution"]
    /\ call.ret.merged["institution"] = call.arg[2]["institution"]
    /\ "table_program" \in DOMAIN call.ret.merged
    /\ "program" \notin DOMAIN call.arg[2]
    /\ call.ret.clean["program"] = call.arg[1]["table_program"]

\* The output records with non-blank notes.
WithNotes(entries) == {i \in DOMAIN entries : HasNotes(entries[i])}

\* C13: under every interleaving of the detail workers no counter update is
\* lost: whenever the stats lock is free total_entries_processed is the
\* number of records merged so far and entries_with_notes the number of them
\* with non-blank notes, so at the end of the detail phase they count the
\* output; and in main.py every step that writes total_entries_processed,
\* entries_with_notes or failed_requests starts with the stats lock held.
C13_NoLostCounterUpdates ==
    /\ [](~stats_lock =>
            /\ stats.total_entries_processed =
                 Len(complete_entries) + Len(batch_results)
            /\ stats.entries_with_notes =
                 Cardinality(WithNotes(complete_entries))
                   + Cardinality(WithNotes(batch_results)))
    /\ [](pc \in {"save", "done", "exit"} =>
            /\ ~stats_lock
            /\ batch_results = <<>>
            /\ stats.total_entries_processed = Len(complete_entries)
            /\ stats.entries_with_notes = Cardinality(WithNotes(complete_entries)))
    /\ [][ /\ variant = OPT
           /\ \/ stats'.total_entries_processed # stats.total_entries_processed
              \/ stats'.entries_with_notes # stats.entries_with_notes
              \/ stats'.failed_requests # stats.failed_requests
           => stats_lock ]_vars

\* C13 witness: two workers ran at once, the second record of the batch was
\* collected first, and the run ended with both counted, one with notes.
C13_Witness ==
    /\ variant = OPT
    /\ pc = "exit"
    /\ max_workers >= 2
    /\ Len(complete_entries) = 2
    /\ complete_entries[1]["entry_id"] = 2
    /\ complete_entries[2]["entry_id"] = 1
    /\ stats.total_entries_processed = 2
    /\ stats.entries_with_notes = 1

\* C14: listing pages are requested one per step in strictly increasing
\* index order: the first request is for start_page, every later one for the
\* index after the page requested last, so that between the start page and
\* the cursor every index was requested exactly once; and the step that
\* requests page n also applies its outcome (its rows to the accumulated
\* metadata, the empty-page counter) and only then moves the cursor to n+1.
C14_SequentialPagination ==
    /\ [][ PageFetched =>
             /\ lastPage'.page =
                  IF lastPage.page = 0 THEN start_page ELSE lastPage.page + 1
             /\ lastPage'.page = current_page
             /\ Len(all_metadata') = Len(all_metadata) + lastPage'.rows
             /\ SubSeq(all_metadata', 1, Len(all_metadata)) = all_metadata
             /\ consecutive_empty_pages' =
                  IF lastPage'.rows = 0 THEN consecutive_empty_pages + 1 ELSE 0
             /\ stats'.total_pages_scraped = stats.total_pages_scraped + 1
             /\ current_page' = lastPage'.page + 1 ]_vars
    /\ [](pc = "paginate" =>
             /\ current_page = start_page + stats.total_pages_scraped
             /\ lastPage.page # 0 => lastPage.page = current_page - 1)

\* C14 witness: starting at page 2, the pages 2, 3 and 4 have been requested
\* in turn, with rows on one and none on the last.
C14_Witness ==
    /\ pc = "paginate"
    /\ start_page = 2
    /\ lastPage.page = 4
    /\ current_page = 5
    /\ stats.total_pages_scraped = 3
    /\ all_metadata # <<>>
    /\ consecutive_empty_pages = 1

\* How far a task of the pool is from being collected.
TaskWork(st) ==
    CASE st = "queued"   -> 4
      [] st = "running"  -> 3
      [] st = "finished" -> 2
      [] st = "counting" -> 1
      [] OTHER           -> 0

RECURSIVE SumWork(_, _)
SumWork(ts, k) == IF k > Len(ts) THEN 0 ELSE TaskWork(ts[k].st) + SumWork(ts, k + 1)

\* The steps one batch can take, and a bound on those of the detail phase.
BatchWork == 4 * batch_size + 3

DetailWork == BatchWork * target_entries + 3

\* A bound on the number of steps the run can still take.
Rank ==
    CASE pc = "exit" -> 0
      [] pc = "done" -> 1
      [] pc = "save" -> 2
      [] pc = "detail" -> 3 + 2 * (Len(entry_metadata) + 1 - idx)
      [] pc = "backup" /\ variant = SEQ ->
            3 + 2 * (Len(entry_metadata) + 1 - idx) + 1
      [] pc = "batch" -> 3 + BatchWork * (TotalBatches - idx)
      [] pc = "backup" /\ variant = OPT ->
            3 + BatchWork * (TotalBatches - idx) + 1
      [] pc = "pool" ->
            3 + BatchWork * (TotalBatches - idx - 1) + 2 + SumWork(tasks, 1)
      [] pc = "paginate" ->
            3 + DetailWork + 1
              + (IF current_page <= max_pages
                 THEN max_pages + 1 - current_page ELSE 0)

\* Some thread has a step to take: the main thread at a loop check or at a
\* write, a pool thread with a task to start or a fetch to return from, the
\* main thread with a future to collect, a count to make under the lock or
\* a drained pool to leave.
CanStep ==
    \/ pc \in {"paginate", "detail", "batch", "backup", "save"}
    \/ pc = "done" /\ variant = OPT
    \/ /\ pc = "pool"
       /\ \/ Queued # {} /\ WorkerFree
          \/ Running # {}
          \/ ~stats_lock /\ \E i \in DOMAIN tasks : tasks[i].st = "finished"
          \/ stats_lock /\ \E i \in DOMAIN tasks : tasks[i].st = "counting"
          \/ BatchDrained

\* Every step brings the run closer to its end, and the run stops only at
\* its end.
Terminates ==
    /\ [][Rank' < Rank]_vars
    /\ [](Rank >= 0)
    /\ [](Ended \/ CanStep)

\* Once the detail phase is over every metadata record was attempted
\* exactly once, in order.
OneAttemptPerRecord ==
    /\ [](\A i, j \in DOMAIN attempted : i # j => attempted[i] # attempted[j])
    /\ [](pc \in {"save", "done", "exit"} =>
            attempted = [i \in 1..Len(entry_metadata) |-> i])

\* C15 as stated: the run terminates, the pagination performs at most
\* max_pages - start_page + 1 page fetches, and the detail phase performs
\* exactly one resolution attempt per metadata record.
C15_TerminatesWithinPageBudget ==
    /\ Terminates
    /\ [](stats.total_pages_scraped <= max_pages - start_page + 1)
    /\ OneAttemptPerRecord

\* C15 amended: the run terminates, the pagination performs at most
\* max_pages - start_page + 1 page fetches, or none when start_page is
\* beyond max_pages, and the detail phase performs exactly one resolution
\* attempt per metadata record.
C15_Terminates ==
    /\ Terminates
    /\ [](stats.total_pages_scraped <=
            IF start_page <= max_pages THEN max_pages - start_page + 1 ELSE 0)
    /\ OneAttemptPerRecord

\* C15 witness: a run that used its whole page budget, starting after page
\* 1, has ended with every collected record attempted once.
C15_Witness ==
    /\ Ended
    /\ start_page = 2
    /\ stats.total_pages_scraped = max_pages - start_page + 1
    /\ stats.total_pages_scraped >= 2
    /\ Len(entry_metadata) >= 2
    /\ attempted = [i \in 1..Len(entry_metadata) |-> i]

\* What the run hands over in the end: the cleaner's records in main.py, the
\* scraper's in scrape.py.
FinalOutput == IF variant = OPT THEN cleaner.clean_data ELSE result

\* C16: end to end, with two listing pages whose rows give n metadata
\* records (5 + 3 = 8 in the scenario of the claim) there are n detail
\* fetches; when exactly one of them fails and exactly one canonical key is
\* duplicated among the others, the final output has exactly n - 2 records
\* (8 - 1 - 1 = 6) and the run summary reports a failed-fetch count of 1.
C16_EndToEndCounts ==
    /\ Ended
    /\ stats.total_pages_scraped = 2
    /\ Len(entry_metadata) >= 3
    /\ Len(attempted) = Len(entry_metadata)
    /\ Len(complete_entries) = Len(entry_metadata) - 1
    /\ Cardinality({complete_entries[i]["entry_id"] : i \in DOMAIN complete_entries})
         = Len(complete_entries) - 1
    /\ variant = OPT => cleaner.input = "fresh"
    => /\ Len(FinalOutput) = Len(entry_metadata) - 2
       /\ FailedCounter = 1

\* The numeric readings of a score text.
IsDigits(text, n) == Len(text) = n /\ \A i \in DOMAIN text : text[i] \in Digits

\* d.d or d.dd, as a number of hundredths; -1 when the text is no such number
Hundredths(text) ==
    IF /\ Len(text) \in {3, 4}
       /\ text[1] \in Digits /\ text[2] = "."
       /\ \A i \in 3..Len(text) : text[i] \in Digits
    THEN 100 * DigitValue(text[1]) + 10 * DigitValue(text[3])
           + (IF Len(text) = 4 THEN DigitValue(text[4]) ELSE 0)
    ELSE -1

ScoreInRange(field, text) ==
    CASE field = "gpa" -> Hundredths(text) >= 0 /\ Hundredths(text) <= 400
      [] field = "gre_general" ->
            IsDigits(text, 3) /\ 260 <= IntOf(text) /\ IntOf(text) <= 340
      [] field = "gre_verbal" ->
            IsDigits(text, 3) /\ 130 <= IntOf(text) /\ IntOf(text) <= 170
      [] field = "analytical_writing" ->
            Hundredths(text) >= 0 /\ Hundredths(text) <= 600
      [] OTHER -> TRUE

\* C17: every score field present in the record the detail resolver returns
\* lies in its range (GPA 0.0..4.0, GRE total 260..340, GRE verbal 130..170,
\* analytical writing 0.0..6.0); a raw value out of range, or without an
\* in-range value in it, leaves only that field absent.
C17_ScoresInRange ==
    call.fn = "_parse_individual_entry" =>
        LET raw == ParseGradcafeFields(call.arg)
        IN  /\ \A f \in DOMAIN call.ret : ScoreInRange(f, call.ret[f])
            /\ \A f \in DOMAIN raw :
                  ScoreInRange(f, raw[f]) => f \in DOMAIN call.ret

\* The patterns of the GRE total whose match in the text is a valid score.
ValidGrePatterns(text) ==
    {k \in 1..4 : GreSearch(k, text) # <<>>
                    /\ 260 <= IntOf(GreSearch(k, text))
                    /\ IntOf(GreSearch(k, text)) <= 340}

\* C18: gre_score is only ever set to an integer t with 260 <= t <= 340
\* (260 and 340 are accepted, 259 and 341 are not); it is the match of the
\* first pattern whose match is in range, whatever the earlier patterns
\* matched, and it stays empty when no pattern has a match in range.
C18_GreTotalInRange ==
    call.fn = "_extract_gre_scores" =>
        LET text == LowerText(call.arg)
            valid == ValidGrePatterns(text)
        IN  /\ call.ret # <<>> =>
                  /\ IsDigits(call.ret, 3)
                  /\ 260 <= IntOf(call.ret) /\ IntOf(call.ret) <= 340
            /\ valid # {} => call.ret = GreSearch(Least(valid), text)
            /\ valid = {} => call.ret = <<>>
            /\ \A k \in 1..4 :
                  GreSearch(k, text) \in {<<"2", "5", "9">>, <<"3", "4", "1">>}
                     => call.ret # GreSearch(k, text)

\* C18 witness: in "341 GRE 260"-like text the first pattern matches 341,
\* out of range, and the score is the 260 a later pattern matches.
C18_Witness ==
    /\ call.fn = "_extract_gre_scores"
    /\ GreSearch(1, LowerText(call.arg)) = <<"3", "4", "1">>
    /\ GreSearch(4, LowerText(call.arg)) = <<"2", "6", "0">>
    /\ call.ret = <<"2", "6", "0">>

\* The number of important fields of an entry that are non-empty.
NonEmptyImportant(entry) ==
    Cardinality({f \in ImportantFields \cap DOMAIN entry : entry[f] # ""})

\* C19: the completeness score is an integer in 0..100 fixed by the number k
\* of the 8 important fields that are non-empty: it is 100*k/8 rounded to an
\* integer (at most one half away from it; 0 for k = 0, 50 for k = 4, 100
\* for k = 8), and filling one more important field never lowers it.
C19_CompletenessScore ==
    call.fn = "_calculate_completeness" =>
        LET k == NonEmptyImportant(call.arg)
            d == 8 * call.ret - 100 * k
        IN  /\ Cardinality(ImportantFields) = 8
            /\ call.ret \in 0..100
            /\ -4 <= d /\ d <= 4
            /\ k = 0 => call.ret = 0
            /\ k = 4 => call.ret = 50
            /\ k = 8 => call.ret = 100
            /\ \A f \in ImportantFields :
                  (f \notin DOMAIN call.arg \/ call.arg[f] = "") =>
                      CalculateCompleteness(
                          [g \in DOMAIN call.arg \cup {f} |->
                              IF g = f THEN "x" ELSE call.arg[g]])
                        >= call.ret

\* C19 witness: an entry with 4 of the 8 important fields filled, one of the
\* others present but empty and one missing, scored 50.
C19_Witness ==
    /\ call.fn = "_calculate_completeness"
    /\ NonEmptyImportant(call.arg) = 4
    /\ \E f \in ImportantFields \cap DOMAIN call.arg : call.arg[f] = ""
    /\ ImportantFields \ DOMAIN call.arg # {}
    /\ call.arg["comments"] = "x"
    /\ call.ret = 50

\* The full names of the season-code table entries whose code is in a text.
TableNames(text) == {SeasonMapping[i].full_name : i \in MappingHits(text)}

\* Fall/Spring 20dd for the standalone codes [FS]dd of a text.
GenericNames(text) ==
    {(IF text[p] = "F" THEN <<"Fall", " ", "2", "0">>
                       ELSE <<"Spring", " ", "2", "0">>) \o SubSeq(text, p + 1, p + 2) :
        p \in {q \in DOMAIN text : SeasonCodeAt(text, q)}}

\* The full season names with a year 20dd that stand in a text.
FullNames(text) ==
    {SubSeq(text, p, FullSeasonEnd(SeasonWords[i], text, p)) :
        <<i, p>> \in {<<j, q>> \in (DOMAIN SeasonWords) \X (DOMAIN text) :
                         FullSeasonEnd(SeasonWords[j], text, q) # 0}}

\* A name without its white space and in lower case.
Squash(name) == LowerText(SelectSeq(name, LAMBDA token : token # " "))

\* C20: both season extractors apply the rules in one priority: the full
\* name of a season-code table entry found in the text ("F25" gives
\* "Fall 2025"); otherwise Fall/Spring 20dd of a standalone code [FS]dd
\* ("S99" gives "Spring 2099"); otherwise a full season name with year of
\* the text; a lower rule never replaces a higher one, and text matching
\* none of them yields absent.
C20_SeasonPriority ==
    call.fn \in {"_parse_season_code", "_extract_semester_year"} =>
        LET table == TableNames(call.arg)
            generic == GenericNames(call.arg)
            full == FullNames(call.arg)
        IN  IF table # {} THEN call.ret \in table
            ELSE IF generic # {} THEN call.ret \in generic
            ELSE IF full # {}
                 THEN \E name \in full : Squash(call.ret) = Squash(name)
            ELSE call.ret = <<>>

\* The class the decision keywords of a text give it by the priority
\* accept > reject/denied > waitlist > interview; "" when it has none.
DecisionClass(text) ==
    LET decision == LowerText(text)
    IN  IF KeywordIn("accept", decision) THEN "Accepted"
        ELSE IF KeywordIn("reject", decision) \/ KeywordIn("denied", decision)
             THEN "Rejected"
        ELSE IF KeywordIn("waitlist", decision) THEN "Waitlisted"
        ELSE IF KeywordIn("interview", decision) THEN "Interview"
        ELSE ""

\* C21: a decision text is classified by the highest keyword it contains
\* in the priority accept > reject/denied > waitlist > interview, "denied"
\* classifies as rejected, and a text with none of the keywords is passed
\* through verbatim. The scraper's class is decision_standardized beside the
\* decision text it keeps; the cleaner's is the date field it fills beside
\* the applicant_status it keeps.
C21_DecisionPriority ==
    /\ call.fn = "_clean_and_validate_entry" =>
          LET class == DecisionClass(call.arg.decision)
          IN  /\ call.ret["decision"] = call.arg.decision
              /\ class # "" => call.ret["decision_standardized"] = <<class>>
    /\ call.fn = "_extract_decision_dates" =>
          LET class == DecisionClass(call.arg.applicant_status)
          IN  /\ call.ret.applicant_status = call.arg.applicant_status
              /\ call.ret.acceptance_date # <<>> <=> class = "Accepted"
              /\ call.ret.rejection_date # <<>> <=> class = "Rejected"

\* C22: the table locator returns a table with the highest header-keyword
\* score; when no table matches any keyword it returns a table with the
\* most rows; it returns not-found only when the document has no table.
C22_BestTable ==
    call.fn = "_find_results_table" =>
        LET tables == call.arg
            matching == {i \in DOMAIN tables : tables[i].keywords > 0}
        IN  /\ call.ret = 0 <=> tables = <<>>
            /\ call.ret # 0 =>
                  IF matching # {}
                  THEN \A j \in DOMAIN tables :
                           tables[j].keywords <= tables[call.ret].keywords
                  ELSE \A j \in DOMAIN tables :
                           tables[j].rows <= tables[call.ret].rows

\* A value that is there and not blank.
NonBlank(value) == value \notin {"", " "}

\* A raw entry with a non-blank target field or table_ fallback.
HasTargetField(raw_entry) ==
    \E f \in TargetFields :
        \/ NonBlank(Get(raw_entry, f))
        \/ NonBlank(Get(raw_entry, "table_" \o f))

\* C23: the normalizer drops exactly the records whose target fields and
\* table_ fallbacks are all absent or blank, keeps every record with a
\* non-blank one, and the kept records are in the order of the input.
C23_DropsOnlyKeyOnly ==
    call.fn = "clean_data" =>
        LET kept == SelectSeq(call.arg, HasTargetField)
        IN  /\ Len(call.ret) = Len(kept)
            /\ \A i \in DOMAIN call.ret : call.ret[i]["entry_id"] = kept[i]["entry_id"]

\* The price list: what each known crust, sauce and topping costs.
ListPrice(item) ==
    CASE item = "thin" -> 5 [] item = "thick" -> 6 [] item = "gluten free" -> 8
      [] item = "marinara" -> 2 [] item = "pesto" -> 3 [] item = "liv" -> 5
      [] item = "pineapple" -> 1 [] item = "pepperoni" -> 2
      [] item = "mushrooms" -> 3
      [] OTHER -> 0

\* The sum of the list prices of a sequence of items.
RECURSIVE SumPrices(_)
SumPrices(items) ==
    IF items = <<>> THEN 0 ELSE ListPrice(Head(items)) + SumPrices(Tail(items))

\* The items of the pizzas of an order, one after the other.
RECURSIVE Items(_)
Items(pizzas) ==
    IF pizzas = <<>> THEN <<>>
    ELSE <<Head(pizzas).crust, Head(pizzas).sauce>> \o Head(pizzas).toppings
            \o Items(Tail(pizzas))

C25_UnknownCrustRaises ==
    [][(input_pizza_calls' = input_pizza_calls + 1
          /\ call'.arg[1] \notin {"thin", "thick", "gluten free"})
        => /\ call'.ret = "ValueError"
           /\ order'.pizzas = order.pizzas
           /\ order'.total_cost = order.total_cost]_vars

\* C26: in the batched resolver every metadata record is submitted for
\* detail resolution exactly once: batch number b is the slice of the
\* metadata list from b * batch_size on, of batch_size records or, for the
\* last batch, of the records that are left, and never empty; the fetches
\* issued so far are the records 1, 2, ... without a gap or a repetition,
\* all of every earlier batch, and all records once the phase is over.
C26_BatchesPartition ==
    variant = OPT =>
        LET n == Len(entry_metadata)
        IN  /\ pc = "pool" =>
                  /\ tasks # <<>>
                  /\ Len(tasks) <= batch_size
                  /\ \A i \in DOMAIN tasks : tasks[i].index = idx * batch_size + i
                  /\ Len(tasks) < batch_size => idx * batch_size + Len(tasks) = n
                  /\ Len(attempted) >= idx * batch_size
                  /\ Len(attempted) <= idx * batch_size + Len(tasks)
            /\ attempted = [i \in 1..Len(attempted) |-> i]
            /\ pc \in {"batch", "backup"} => Len(attempted) = Min(idx * batch_size, n)
            /\ pc \in {"save", "done", "exit"} => Len(attempted) = n

\* C26 witness: a run over three metadata records, resolved in a batch of
\* two and a last batch of one, is over.
C26_Witness ==
    /\ variant = OPT
    /\ pc = "exit"
    /\ Len(entry_metadata) = 3
    /\ batch_size = 2
    /\ attempted = <<1, 2, 3>>

\* The records of a chunk were each merged with the metadata of a record of
\* batch b of their own: they carry its entry_id and entry_url.
FromBatch(chunk, b) ==
    \E f \in [DOMAIN chunk -> (BatchStart(b) + 1)..BatchEnd(b)] :
        /\ \A p, q \in DOMAIN chunk : p # q => f[p] # f[q]
        /\ \A p \in DOMAIN chunk :
              /\ chunk[p]["entry_id"] = entry_metadata[f[p]]["entry_id"]
              /\ chunk[p]["entry_url"] = entry_metadata[f[p]]["entry_url"]

\* The entries are records of batch b, then of batch b + 1, and so on up
\* to batch last.
RECURSIVE InBatchOrder(_, _, _)
InBatchOrder(entries, b, last) ==
    IF entries = <<>> THEN TRUE
    ELSE IF b > last THEN FALSE
    ELSE \E k \in 0..Len(entries) :
            /\ FromBatch(SubSeq(entries, 1, k), b)
            /\ InBatchOrder(SubSeq(entries, k + 1, Len(entries)), b + 1, last)

\* The collected results of the running batch: what is in batch_results was
\* merged from the tasks already taken from as_completed, each result with
\* the metadata record its task fetched.
PairedWithOwnMetadata ==
    \E order_taken \in [DOMAIN batch_results -> DOMAIN tasks] :
        /\ \A p, q \in DOMAIN batch_results : p # q => order_taken[p] # order_taken[q]
        /\ \A p \in DOMAIN batch_results :
              LET task == tasks[order_taken[p]]
              IN  /\ task.st \in {"counting", "collected"}
                  /\ batch_results[p] =
                        DictMerge(entry_metadata[task.index], task.res.data)

\* C27: under every interleaving of worker completions the output has the
\* records of batch i before those of batch j whenever i < j, and every
\* record is the merge of a detail result with the metadata record it was
\* fetched for.
C27_BatchOrderAndPairing ==
    variant = OPT =>
        /\ InBatchOrder(complete_entries, 0,
                        IF pc \in {"paginate", "batch", "pool", "backup"}
                        THEN idx - 1 ELSE TotalBatches - 1)
        /\ pc = "pool" => PairedWithOwnMetadata
        /\ pc = "pool" => InBatchOrder(complete_entries \o batch_results, 0, idx)

\* C27 witness: a run over three records is over; in the first batch the
\* fetch of the second record completed first, so its record comes first,
\* and the record of the second batch comes last.
C27_Witness ==
    /\ variant = OPT
    /\ pc = "exit"
    /\ Len(complete_entries) = 3
    /\ entry_metadata[1]["entry_id"] = 1
    /\ entry_metadata[2]["entry_id"] = 2
    /\ complete_entries[1]["entry_id"] = 2
    /\ complete_entries[2]["entry_id"] = 1

\* C28: in a run of main() whose scraping phase returned a non-empty record
\* set, the cleaning phase reads exactly that record set: never the records
\* an earlier run left in the file, and never nothing.
C28_CleanerReadsThisRun ==
    (variant = OPT /\ cleaner.ran /\ result # <<>>) =>
        /\ cleaner.input = "fresh"
        /\ Loaded(cleaner.input) = result

\* C29: the paginator returns at most target_entries metadata records, the
\* first target_entries in listing order when the last page overshoots, and
\* the output never has more records than the metadata list it is resolved
\* from.
C29_AtMostTarget ==
    /\ [](/\ Len(entry_metadata) <= target_entries
          /\ Len(complete_entries) + Len(batch_results) <= Len(entry_metadata)
          /\ Len(result) <= Len(entry_metadata))
    /\ [][(pc = "paginate" /\ pc' # "paginate") =>
             /\ Len(entry_metadata') = Min(target_entries, Len(all_metadata))
             /\ \A i \in DOMAIN entry_metadata' : entry_metadata'[i] = all_metadata[i]]_vars

\* C29 witness: the last page has taken the list past target_entries and
\* the loop is about to end.
C29_Witness ==
    /\ pc = "paginate"
    /\ Len(all_metadata) > target_entries
    /\ ~LoopCond

\* A row the claim lets emit a record: no header row, at least 3 cells and
\* a link with /result/<id>.
MayEmit(rows, i) ==
    /\ i > 1
    /\ rows[i].cells >= 3
    /\ \E k \in DOMAIN rows[i].links : rows[i].links[k] # NoMatch

\* The records emitted, row by row, for a choice of the rows that emit.
RECURSIVE Emitted(_, _, _)
Emitted(rows, emits, i) ==
    IF i > Len(rows) THEN <<>>
    ELSE (IF emits[i] THEN <<RowMetadata(FirstResultLink(rows[i].links).id)>>
                      ELSE <<>>) \o Emitted(rows, emits, i + 1)

\* C30: every record the listing parser emits carries the entry_id and the
\* entry_url of the first /result/<id> link of its row, neither of them
\* null; header rows, rows of fewer than 3 cells and rows without such a
\* link emit nothing.
C30_EveryRecordHasKey ==
    call.fn = "parse_listing" =>
        LET rows == call.arg.rows
        IN  /\ \A p \in DOMAIN call.ret :
                  {"entry_id", "entry_url"} \subseteq DOMAIN call.ret[p]
            /\ \E emits \in [DOMAIN rows -> BOOLEAN] :
                  /\ \A i \in DOMAIN rows : emits[i] => MayEmit(rows, i)
                  /\ call.ret = Emitted(rows, emits, 1)

====
